---- MODULE Spec2Model ----
(***************************************************************************)
(* A model of the testimonials carousel of src/script.js                   *)
(* (class TestimonialsController): one carousel instance, the page         *)
(* elements it looks up, the browser timers it owns (the repeating         *)
(* autoplay interval, the delayed resumes, the resize debounce, the        *)
(* initialization retry) and the handlers it registers; and of the         *)
(* language preference of the header (class HeaderController) with the     *)
(* localStorage key it is kept under, its language dropdown and its        *)
(* mobile menu; of the two carousel instances the page constructs; of      *)
(* the DOMContentLoaded handler; of the service cards' activation          *)
(* listeners; and of the FAQ accordion.  Every action is one synchronous   *)
(* run of one handler or timer callback.  The page's markup is not part    *)
(* of the source: the header's elements are taken to exist and to be       *)
(* served with the mobile menu closed.                                     *)
(***************************************************************************)
EXTENDS Integers, FiniteSets, Sequences, TLC

(* ---------------------------- bounds ----------------------------------- *)

\* Largest number of .testimonial-slide elements the page holds.
MaxSlides == 7
\* Largest number of delayed resumes (setTimeout(startAutoPlay, 1000)) pending at once.
MaxPendingResumes == 2
\* Number of interval identifiers the browser hands out (free ones are reused).
MaxTimers == 2
\* Number of questions of the FAQ accordion.
MaxFaqItems == 3

(* ----------------------- program constants ----------------------------- *)

MobileMaxWidth == 768
TabletMaxWidth == 1024
DesktopSlidesVisible == 3
SwipeThreshold == 50
maxRetries == 5
HeaderMobileMaxWidth == 768

\* Viewport widths the window takes: the widths the specification names, the
\* two breakpoints and the width just above the first.
Widths == {500, 700, 768, 769, 1024, 1200}
\* Horizontal positions (clientX) where a touch starts and where it ends.  The
\* handlers only use the difference: the touches start at the left edge of the
\* viewport (clientX 0, which is also the closure's initial startX) and end 30 (to
\* the left only), 50, 51 or 60 away; a position left of the viewport is negative.
TouchStartXs == {0}
TouchEndXs == {-60, -51, -50, -30, 50, 51, 60}

\* Arguments goToSlide is called with when the largest valid index is maxIdx:
\* every valid index and the nearest invalid one on either side.
GoToArgs(maxIdx) == (-1)..(maxIdx + 1)

\* autoPlayInterval = null; setInterval returns positive identifiers.
NoTimer == 0
\* A numeric field that has not been assigned yet (undefined).
Unset == -1

VARIABLES
    \* the page (external): elements present, viewport width.  The optional
    \* aria-live region only receives text and is left out.
    containerPresent,   \* document.getElementById(carouselId) finds the container
    elementsPresent,    \* track, prev/next buttons and >= 1 slide are in the container
    domSlides,          \* number of .testimonial-slide elements in the markup
    hasIndicators,      \* the optional .carousel-indicators strip exists
    innerWidth,         \* window.innerWidth
    \* the controller's fields
    initialized, retryCount,
    currentIndex, totalSlides, slidesVisible, maxIndex,
    autoPlayInterval, isAutoPlaying, isPaused,
    startX,             \* closure variable of the touch handlers
    \* browser timers owned by the instance
    initPending,        \* number of scheduled calls of initialize() not yet run
    activeIntervals,    \* identifiers of the live setInterval timers
    resumePending,      \* number of pending setTimeout(startAutoPlay, 1000)
    timeout,            \* closure variable of the debounced resize handler: the
                        \* timeout it set last (NoTimer: none yet, or it has fired)
    debounceTimers,     \* identifiers of the pending timeouts of that handler
    \* the view
    transition,         \* track.style.transition: "unset" | "none" | "slide"
    trackSlide,         \* slide whose offsetLeft positions the track
    dots,               \* number of .carousel-dot buttons in the strip
    activeDot,          \* index of the dot carrying class active (Unset: none)
    controlsDisplay,    \* prev/next style.display: "unset" | "flex" | "none"
    \* history: the handler that ran last (a focus move inside the carousel runs
    \* none), its argument (goToSlide's index, a touch's displacement, 1 for a
    \* resize event and 2 for one that directly follows another), and
    \* currentIndex before it (for the handlers that can assign it)
    lastOp, lastArg, prevIndex,
    tripStart,          \* after a next(): currentIndex before it; after a previous()
                        \* that directly followed a next(): currentIndex before that
                        \* next(); Unset otherwise
    attempts,           \* history: scheduled runs of initialize() so far
    lastEndX,           \* after a touchend: the clientX where the touch ended
    \* the language preference store (localStorage) and the header controller
    storeMode,          \* "ok" | "readonly" (setItem throws) | "denied" (getItem and
                        \* setItem throw)
    stored,             \* value under the key selectedLanguage ("absent": none)
    headerLoaded,       \* a HeaderController has been constructed on this page
    currentLanguage,    \* its field currentLanguage ("unset" before construction)
    languageDisplay,    \* text of the #current-language span ("markup": as served)
    documentLang,       \* document.documentElement.lang ("markup": as served)
    isLanguageDropdownOpen,
    loadThrew,          \* an exception left the constructor
    clickThrew,         \* an exception left the last language option click
    bootDone,           \* the steps of the DOMContentLoaded handler that completed
    bootError,          \* the identifier whose lookup ended the handler ("none")
    isMobileMenuOpen,   \* the controller's field
    bodyOverflow,       \* document.body.style.overflow ("hidden" locks scrolling)
    toggleAriaExpanded, \* aria-expanded of the mobile toggle button
    hResizePending,     \* the header's debounced resize handling is scheduled
    hBefore,            \* history: <<menu open, dropdown open>> before the last menu handler
    \* history of the header: the operation that ran last, its argument
    \* (changeLanguage's code; for a load what getItem gave: a value, "absent"
    \* or "threw"), and the language code the last option click stored, while
    \* nothing else has touched the store since ("none" otherwise)
    hLastOp, hArg, hExpect,
    \* the carousel instances of the script's top level (englishCarousel,
    \* spanishCarousel) side by side
    instances,          \* instance name -> its fields
    intervalOwner,      \* live interval id -> the instance whose nextSlide it calls
    pOp, pActor,        \* history: the handler that ran last and its instance
    \* the service cards (class ServicesController) and the FAQ accordion
    lastActivation,     \* the last gesture on a card or its CTA button, with the
                        \* number of times each handler ran for it
    faqOpen,            \* FAQ items whose answer carries the class open
    faqExpanded,        \* FAQ items whose question has aria-expanded = "true"
    faqMarkupOk,        \* history: the page was served with at most one answer
                        \* open and every flag matching its answer
    faqLast             \* history: the item clicked last, and whether its answer
                        \* was open before

page == <<containerPresent, elementsPresent, domSlides, hasIndicators>>
fields == <<initialized, retryCount, currentIndex, totalSlides, slidesVisible,
            maxIndex, autoPlayInterval, isAutoPlaying, isPaused>>
debounce == <<timeout, debounceTimers>>
timers == <<initPending, activeIntervals, resumePending, debounce>>
view == <<transition, trackSlide, dots, activeDot, controlsDisplay>>
history == <<lastOp, lastArg, prevIndex, tripStart, attempts, lastEndX>>
carousel == <<page, innerWidth, fields, startX, timers, view, history>>
store == <<storeMode, stored>>
headerFields == <<headerLoaded, currentLanguage, isLanguageDropdownOpen, loadThrew,
                  clickThrew>>
headerView == <<languageDisplay, documentLang>>
headerHistory == <<hLastOp, hArg, hExpect, hBefore>>
boot == <<bootDone, bootError>>
menu == <<isMobileMenuOpen, bodyOverflow, toggleAriaExpanded>>
header == <<store, headerFields, headerView, headerHistory, boot, menu, hResizePending>>
pair == <<instances, intervalOwner, pOp, pActor>>
\* What the handlers of one part leave alone: the other parts.
faq == <<faqOpen, faqExpanded, faqMarkupOk, faqLast>>
widgets == <<lastActivation, faq>>
offCarousel == <<header, pair, widgets>>
offHeader == <<carousel, pair, widgets>>
offPair == <<carousel, header, widgets>>
offWidgets == <<carousel, header, pair>>
vars == <<carousel, header, pair, widgets>>

(* ------------------------- pure helpers -------------------------------- *)

\* Math.max(a, b)
Max(a, b) == IF a >= b THEN a ELSE b

\* Math.abs(a)
Abs(a) == IF a < 0 THEN -a ELSE a

\* Mutant: the breakpoints compared with < instead of <=.
SlidesVisibleForStrict(w) ==
    IF w < MobileMaxWidth THEN 1
    ELSE IF w < TabletMaxWidth THEN 2
    ELSE DesktopSlidesVisible

\* calculateDimensions, lines 1224-1226: the step function of the width.
SlidesVisibleFor(w) ==
    IF w <= MobileMaxWidth THEN 1
    ELSE IF w <= TabletMaxWidth THEN 2
    ELSE DesktopSlidesVisible

\* Mutant: the floor at 0 is missing.
MaxIndexForNoFloor(total, visible) == total - visible

\* Mutant: the last window is counted one too far.
MaxIndexForOffByOne(total, visible) == Max(0, total - visible + 1)

\* calculateDimensions, line 1228.
MaxIndexFor(total, visible) == Max(0, total - visible)

\* Mutant: the index is not clamped.
ClampIndexNoClamp(idx, maxIdx) == idx

\* Mutant: the index is always moved to the last window.
ClampIndexAlwaysMax(idx, maxIdx) == maxIdx

\* calculateDimensions, lines 1229-1231.
ClampIndex(idx, maxIdx) == IF idx > maxIdx THEN maxIdx ELSE idx

\* calculateDimensions as a whole: the three fields it assigns.
CalculateDimensions(w, total, idx) ==
    LET visible == SlidesVisibleFor(w)
        maxIdx == MaxIndexFor(total, visible)
    IN  [slidesVisible |-> visible, maxIndex |-> maxIdx,
         currentIndex |-> ClampIndex(idx, maxIdx)]

\* Mutant: wraps one position early.
NextIndexEarlyWrap(idx, maxIdx) == IF idx + 1 >= maxIdx THEN 0 ELSE idx + 1

\* Mutant: wraps to the second window, so the first is left out.
NextIndexWrapsToSecond(idx, maxIdx) ==
    IF idx + 1 > maxIdx THEN (IF maxIdx >= 1 THEN 1 ELSE 0) ELSE idx + 1

\* Mutant: stays on the last window instead of wrapping to the first.
NextIndexNoWrap(idx, maxIdx) == IF idx + 1 > maxIdx THEN idx ELSE idx + 1

\* nextSlide, line 1293.
NextIndex(idx, maxIdx) == IF idx + 1 > maxIdx THEN 0 ELSE idx + 1

\* Mutant: stops at the first window instead of wrapping to the last.
PreviousIndexNoWrap(idx, maxIdx) == IF idx - 1 < 0 THEN 0 ELSE idx - 1

\* previousSlide, line 1298.
PreviousIndex(idx, maxIdx) == IF idx - 1 < 0 THEN maxIdx ELSE idx - 1

\* Mutant: the upper bound is off by one.
GoToAcceptedOffByOne(i, maxIdx) == i >= 0 /\ i <= maxIdx + 1

\* goToSlide, line 1286: the guard.
GoToAccepted(i, maxIdx) == i >= 0 /\ i <= maxIdx

\* Mutant: the controls are also shown when the slides exactly fill the window.
ShowControlsAtLeast(total, visible) == total >= visible

\* updateControlStates, line 1327.
ShowControls(total, visible) == total > visible

\* Mutant: autoplay also stays enabled when the slides exactly fill the window.
AutoPlayEnabledForAtLeast(total, visible) == ~(total < visible)

\* setupAutoPlay, line 1341: autoplay stays enabled.
AutoPlayEnabledFor(total, visible) == ~(total <= visible)

\* The identifier setInterval returns: one that names no live interval.
FreshTimer(active) == CHOOSE id \in 1..MaxTimers : id \notin active

\* Mutant: a new interval is armed without looking at the handle.
StartAutoPlayNoGuard(playing, handle, active) ==
    IF ~playing
    THEN [handle |-> handle, active |-> active]
    ELSE [handle |-> FreshTimer(active), active |-> active \cup {FreshTimer(active)}]

\* startAutoPlay: the handle and the live intervals after the call.
StartAutoPlay(playing, handle, active) ==
    IF ~playing \/ handle # NoTimer
    THEN [handle |-> handle, active |-> active]
    ELSE [handle |-> FreshTimer(active), active |-> active \cup {FreshTimer(active)}]

\* pauseAutoPlay: clearInterval(handle) and handle = null.
PauseAutoPlay(handle, active) ==
    [handle |-> NoTimer, active |-> active \ {handle}]

\* Mutant: the recalculation runs setupAutoPlay again.
RecalcAutoPlaySetup(playing, handle, active, total, visible) ==
    IF ~AutoPlayEnabledFor(total, visible)
    THEN [playing |-> FALSE, handle |-> handle, active |-> active]
    ELSE IF handle # NoTimer \/ active = 1..MaxTimers
    THEN [playing |-> TRUE, handle |-> handle, active |-> active]
    ELSE [playing |-> TRUE, handle |-> FreshTimer(active),
          active |-> active \cup {FreshTimer(active)}]

\* Mutant: the recalculation pauses autoplay.
RecalcAutoPlayPauses(playing, handle, active, total, visible) ==
    [playing |-> playing, handle |-> NoTimer, active |-> active \ {handle}]

\* The resize handler, lines 1271-1275, on the autoplay fields: it calls
\* calculateDimensions, createIndicators and updateCarousel only, so
\* isAutoPlaying, the handle and the live intervals are as before.
RecalcAutoPlay(playing, handle, active, total, visible) ==
    [playing |-> playing, handle |-> handle, active |-> active]

\* Mutant: the pause flag is tested the wrong way round.
ResumeScheduledWhenPaused(playing, paused) == playing /\ paused

\* resumeAutoPlayAfterDelay, line 1361: a resume timeout is scheduled.
ResumeScheduled(playing, paused) == playing /\ ~paused

\* Mutant: a displacement of exactly the threshold counts as a swipe.
IsSwipeAtLeast(sx, ex) == Abs(sx - ex) >= SwipeThreshold

\* touchend, line 1265: the gesture is a swipe.
IsSwipe(sx, ex) == Abs(sx - ex) > SwipeThreshold

\* Mutant: the direction test is reversed.
SwipeIsNextReversed(sx, ex) == sx < ex

\* touchend, line 1266: the swipe means nextSlide (else previousSlide).
SwipeIsNext(sx, ex) == sx > ex

(* --------------------------- the view ---------------------------------- *)

\* updateIndicators: the dot that ends up active among n dots.
ActiveDotFor(n, idx) == IF idx \in 0..(n - 1) THEN idx ELSE Unset

\* Mutant: the transition is animated whatever enableTransition says.
UpdateCarouselAlwaysAnimated(enableTransition, idx, total, visible, n, rebuilt) ==
    LET shown == idx \in 0..(total - 1)
    IN  /\ transition' = IF ~shown THEN transition ELSE "slide"
        /\ trackSlide' = IF shown THEN idx ELSE trackSlide
        /\ activeDot' = IF hasIndicators /\ (shown \/ rebuilt)
                         THEN ActiveDotFor(n, idx) ELSE activeDot
        /\ controlsDisplay' = IF ~shown THEN controlsDisplay
                               ELSE IF ShowControls(total, visible) THEN "flex" ELSE "none"

\* updateCarousel(enableTransition) run with the given field values and n dots;
\* rebuilt: createIndicators ran just before (it calls updateIndicators itself).
UpdateCarousel(enableTransition, idx, total, visible, n, rebuilt) ==
    LET shown == idx \in 0..(total - 1)   \* testimonials[currentIndex] exists
    IN  /\ transition' = IF ~shown THEN transition
                          ELSE IF enableTransition THEN "slide" ELSE "none"
        /\ trackSlide' = IF shown THEN idx ELSE trackSlide
        /\ activeDot' = IF hasIndicators /\ (shown \/ rebuilt)
                         THEN ActiveDotFor(n, idx) ELSE activeDot
        /\ controlsDisplay' = IF ~shown THEN controlsDisplay
                               ELSE IF ShowControls(total, visible) THEN "flex" ELSE "none"

\* Mutant: the loop stops one dot short (i < maxIndex).
DotsForOneShort(maxIdx) == IF hasIndicators THEN maxIdx ELSE dots

\* createIndicators: the number of dots afterwards.
DotsFor(maxIdx) == IF hasIndicators THEN maxIdx + 1 ELSE dots

\* Mutant: the pending timeout is not cleared before the next one is set (as
\* long as the browser has an identifier left).
DebouncedNoClear(handle, pending) ==
    IF pending = 1..MaxTimers
    THEN [handle |-> handle, pending |-> pending]
    ELSE [handle |-> FreshTimer(pending), pending |-> pending \cup {FreshTimer(pending)}]

\* The function debounce returns, lines 1371-1372, called with the closure's
\* timeout = handle while the timeouts in pending are pending: clearTimeout(handle),
\* then handle = setTimeout(...).
Debounced(handle, pending) ==
    LET cleared == pending \ {handle}
        id == FreshTimer(cleared)
    IN  [handle |-> id, pending |-> cleared \cup {id}]

\* Mutant: one retry more than maxRetries.
RetryAllowedOffByOne(count) == count <= maxRetries

\* initialize, line 1188: with a required element missing, another attempt is
\* scheduled.
RetryAllowed(count) == count < maxRetries

(* ---------------------------- Init ------------------------------------- *)

\* No HeaderController exists yet; the page is as served, with the mobile
\* menu closed (aria-expanded "false", scrolling free).
HeaderInit ==
    /\ headerLoaded = FALSE
    /\ currentLanguage = "unset"
    /\ isLanguageDropdownOpen = FALSE
    /\ loadThrew = FALSE
    /\ clickThrew = FALSE
    /\ bootDone = <<>>
    /\ bootError = "none"
    /\ isMobileMenuOpen = FALSE
    /\ bodyOverflow = ""
    /\ toggleAriaExpanded = "false"
    /\ hResizePending = FALSE
    /\ hBefore = <<FALSE, FALSE>>
    /\ languageDisplay = "markup"
    /\ documentLang = "markup"
    /\ hLastOp = "none"
    /\ hArg = "none"
    /\ hExpect = "none"

\* The carousel instance right after its constructor, on any of the pages.
CarouselInit ==
    /\ containerPresent \in BOOLEAN
    /\ elementsPresent \in BOOLEAN
    /\ domSlides \in 1..MaxSlides
    /\ hasIndicators \in BOOLEAN
    \* pages without the optional strip are sampled at 4 slides (more than fit
    \* at any width)
    /\ ~hasIndicators => domSlides = 4
    /\ innerWidth \in Widths
    /\ initialized = FALSE
    /\ retryCount = 0
    /\ currentIndex = Unset
    /\ totalSlides = Unset
    /\ slidesVisible = Unset
    /\ maxIndex = Unset
    /\ autoPlayInterval = NoTimer
    /\ isAutoPlaying = FALSE
    /\ isPaused = FALSE
    /\ startX = 0
    /\ initPending = 1
    /\ activeIntervals = {}
    /\ resumePending = 0
    /\ timeout = NoTimer
    /\ debounceTimers = {}
    /\ transition = "unset"
    /\ trackSlide = 0
    /\ dots = 0
    /\ activeDot = Unset
    /\ controlsDisplay = "unset"
    /\ lastOp = "construct"
    /\ lastArg = Unset
    /\ prevIndex = Unset
    /\ tripStart = Unset
    /\ attempts = 0
    /\ lastEndX = Unset

\* The side-by-side instances are left out.
NoPair ==
    /\ instances = <<>>
    /\ intervalOwner = <<>>
    /\ pOp = "none"
    /\ pActor = "none"

\* The service cards and the accordion are left out.
NoWidgets ==
    /\ lastActivation = <<>>
    /\ faqOpen = {}
    /\ faqExpanded = {}
    /\ faqMarkupOk = TRUE
    /\ faqLast = <<>>

\* The carousel on any page; the header is left unloaded over an empty store.
Init ==
    /\ CarouselInit
    /\ HeaderInit
    /\ storeMode = "ok"
    /\ stored = "absent"
    /\ NoPair
    /\ NoWidgets

(* --------------------------- actions ----------------------------------- *)

\* The handlers that run nextSlide(), and those that run previousSlide().
NextOps == {"next", "swipeNext", "tick"}
PreviousOps == {"previous", "swipePrevious"}

\* The runs of initialize() started by the constructor's listener or timeout
\* or by a retry timeout.
InitializeOps == {"initNoContainer", "initRetry", "initGiveUp", "init", "initReturned"}

\* The runs of initialize() that end in setupState() and init(): scheduled,
\* or called on the instance.
SetupOps == {"init", "callInit"}

\* What every handler run but touchend records: a scheduled run of
\* initialize() is counted, and no touch has just ended.
Track(op) ==
    /\ attempts' = IF op \in InitializeOps THEN attempts + 1 ELSE attempts
    /\ lastEndX' = Unset
    /\ UNCHANGED offCarousel

\* What a touchend at clientX = x records.
TouchHistory(x) ==
    /\ attempts' = attempts
    /\ lastEndX' = x
    /\ UNCHANGED offCarousel

\* The history variables after handler op ran with argument arg; a handler that
\* can assign currentIndex records the value it found.
NavHistory(op, arg) ==
    /\ lastOp' = op
    /\ lastArg' = arg
    /\ prevIndex' = currentIndex
    /\ tripStart' = IF op \in NextOps THEN currentIndex
                     ELSE IF op \in PreviousOps /\ lastOp \in NextOps THEN tripStart
                     ELSE Unset

\* The history variables after goToSlide(i) or a touch that ended with
\* horizontal displacement arg.
ArgHistory(op, arg) ==
    /\ lastOp' = op
    /\ lastArg' = arg
    /\ prevIndex' = Unset
    /\ tripStart' = Unset

RecordNav(op, arg) == Track(op) /\ NavHistory(op, arg)

RecordArg(op, arg) == Track(op) /\ ArgHistory(op, arg)

\* The history variables after a handler that never assigns currentIndex.
Record(op) ==
    /\ Track(op)
    /\ lastOp' = op
    /\ lastArg' = Unset
    /\ prevIndex' = Unset
    /\ tripStart' = Unset

\* The page finishes rendering: the container, then its elements, appear.
DomAppear ==
    /\ ~initialized
    /\ \/ ~containerPresent /\ containerPresent' = TRUE /\ UNCHANGED elementsPresent
       \/ containerPresent /\ ~elementsPresent /\ elementsPresent' = TRUE
          /\ UNCHANGED containerPresent
    /\ UNCHANGED <<domSlides, hasIndicators, innerWidth, fields,
                   startX, timers, view, history, offCarousel>>

\* initialize(), called by the constructor's listener/timeout or by a retry timeout.
InitializeNoContainer ==
    /\ initPending > 0 /\ ~initialized
    /\ ~containerPresent
    /\ initPending' = initPending - 1
    /\ Record("initNoContainer")
    /\ UNCHANGED <<page, innerWidth, fields, startX, activeIntervals, resumePending,
                   debounce, view>>

InitializeRetry ==
    /\ initPending > 0 /\ ~initialized
    /\ containerPresent /\ ~elementsPresent
    /\ RetryAllowed(retryCount)
    /\ retryCount' = retryCount + 1
    /\ initPending' = initPending
    /\ Record("initRetry")
    /\ UNCHANGED <<page, innerWidth, initialized, currentIndex, totalSlides,
                   slidesVisible, maxIndex, autoPlayInterval, isAutoPlaying, isPaused,
                   startX, activeIntervals, resumePending, debounce, view>>

\* Mutant: the attempt that gives up still schedules another one.
InitializeGiveUpStillPending ==
    /\ initPending > 0 /\ ~initialized
    /\ containerPresent /\ ~elementsPresent
    /\ ~RetryAllowed(retryCount)
    /\ initPending' = initPending
    /\ Record("initGiveUp")
    /\ UNCHANGED <<page, innerWidth, fields, startX, activeIntervals, resumePending,
                   debounce, view>>

\* initialize() with the container present, a required element missing and no
\* retry left: an error is logged.
InitializeGiveUp ==
    /\ initPending > 0 /\ ~initialized
    /\ containerPresent /\ ~elementsPresent
    /\ ~RetryAllowed(retryCount)
    /\ initPending' = initPending - 1
    /\ Record("initGiveUp")
    /\ UNCHANGED <<page, innerWidth, fields, startX, activeIntervals, resumePending,
                   debounce, view>>

\* Lines 1196-1199: initialized = true, setupState() and init().
SetupStateAndInit ==
    LET dim == CalculateDimensions(innerWidth, domSlides, 0)
        playing == AutoPlayEnabledFor(domSlides, dim.slidesVisible)
        started == StartAutoPlay(playing, NoTimer, activeIntervals)
        n == DotsFor(dim.maxIndex)
    IN  /\ initialized' = TRUE
        /\ totalSlides' = domSlides
        /\ slidesVisible' = dim.slidesVisible
        /\ maxIndex' = dim.maxIndex
        /\ currentIndex' = dim.currentIndex
        /\ isPaused' = FALSE
        /\ isAutoPlaying' = playing
        /\ autoPlayInterval' = started.handle
        /\ activeIntervals' = started.active
        /\ dots' = n
        /\ UpdateCarousel(FALSE, dim.currentIndex, domSlides, dim.slidesVisible, n, TRUE)

\* initialize() with every required element present: setupState() and init().
InitializeOk ==
    /\ initPending > 0 /\ ~initialized
    /\ containerPresent /\ elementsPresent
    /\ SetupStateAndInit
    /\ initPending' = initPending - 1
    /\ Record("init")
    /\ UNCHANGED <<page, innerWidth, retryCount, startX, resumePending, debounce>>

\* Mutant: the test of the initialized flag is missing, so setupState() and
\* init() run again (the old interval handle is dropped, a new one is armed).
InitializeAgainNoGuard ==
    /\ initialized
    /\ activeIntervals # 1..MaxTimers
    /\ LET dim == CalculateDimensions(innerWidth, domSlides, 0)
           playing == AutoPlayEnabledFor(domSlides, dim.slidesVisible)
           started == StartAutoPlay(playing, NoTimer, activeIntervals)
           n == DotsFor(dim.maxIndex)
       IN  /\ totalSlides' = domSlides
           /\ slidesVisible' = dim.slidesVisible
           /\ maxIndex' = dim.maxIndex
           /\ currentIndex' = dim.currentIndex
           /\ isPaused' = FALSE
           /\ isAutoPlaying' = playing
           /\ autoPlayInterval' = started.handle
           /\ activeIntervals' = started.active
           /\ dots' = n
           /\ UpdateCarousel(FALSE, dim.currentIndex, domSlides, dim.slidesVisible, n, TRUE)
    /\ Record("initAgain")
    /\ UNCHANGED <<page, innerWidth, initialized, retryCount, startX, initPending,
                   resumePending, debounce>>

\* A scheduled call of initialize() runs on an instance that a call from
\* outside has set up in the meantime: line 1169 returns at once.
InitializeReturned ==
    /\ initPending > 0 /\ initialized
    /\ initPending' = initPending - 1
    /\ Record("initReturned")
    /\ UNCHANGED <<page, innerWidth, fields, startX, activeIntervals, resumePending,
                   debounce, view>>

\* initialize() called on the instance from outside (it is reachable as
\* window.testimonialsController), whether or not scheduled calls are
\* pending.  On an initialized instance line 1169 returns at once.  On an
\* uninitialized one the whole method runs: it returns for a missing
\* container, schedules a further call while retries remain, logs an error
\* when none does, or sets the instance up.
InitializeAgain ==
    \/ /\ initialized
       /\ Record("initAgain")
       /\ UNCHANGED <<page, innerWidth, fields, startX, timers, view>>
    \/ /\ ~initialized
       /\ ~containerPresent
       /\ Record("callNoContainer")
       /\ UNCHANGED <<page, innerWidth, fields, startX, timers, view>>
    \/ /\ ~initialized
       /\ containerPresent /\ ~elementsPresent
       /\ RetryAllowed(retryCount)
       /\ retryCount' = retryCount + 1
       /\ initPending' = initPending + 1
       /\ Record("callRetry")
       /\ UNCHANGED <<page, innerWidth, initialized, currentIndex, totalSlides,
                      slidesVisible, maxIndex, autoPlayInterval, isAutoPlaying, isPaused,
                      startX, activeIntervals, resumePending, debounce, view>>
    \/ /\ ~initialized
       /\ containerPresent /\ ~elementsPresent
       /\ ~RetryAllowed(retryCount)
       /\ Record("callGiveUp")
       /\ UNCHANGED <<page, innerWidth, fields, startX, timers, view>>
    \/ /\ ~initialized
       /\ containerPresent /\ elementsPresent
       /\ SetupStateAndInit
       /\ Record("callInit")
       /\ UNCHANGED <<page, innerWidth, retryCount, startX, initPending, resumePending,
                      debounce>>

\* A navigation handler that leaves the dimensions alone: the fields and the view
\* after currentIndex becomes idx with an animated transition.
Navigate(idx) ==
    /\ currentIndex' = idx
    /\ UpdateCarousel(TRUE, idx, totalSlides, slidesVisible, dots, FALSE)
    /\ UNCHANGED <<dots, totalSlides, slidesVisible, maxIndex, initialized, retryCount,
                   isAutoPlaying, isPaused>>

\* handleControlClick(action): pauseAutoPlay, the action, resumeAutoPlayAfterDelay.
HandleControlClick(idx) ==
    LET paused == PauseAutoPlay(autoPlayInterval, activeIntervals)
    IN  /\ ResumeScheduled(isAutoPlaying, isPaused) => resumePending < MaxPendingResumes
        /\ autoPlayInterval' = paused.handle
        /\ activeIntervals' = paused.active
        /\ Navigate(idx)
        /\ resumePending' = IF ResumeScheduled(isAutoPlaying, isPaused)
                            THEN resumePending + 1 ELSE resumePending
        /\ UNCHANGED <<initPending, debounce>>

\* Click on the next button (a click() from script reaches the listener
\* of a hidden button too).
NextClick ==
    /\ initialized
    /\ HandleControlClick(NextIndex(currentIndex, maxIndex))
    /\ RecordNav("next", Unset)
    /\ UNCHANGED <<page, innerWidth, startX>>

\* Click on the previous button.
PrevClick ==
    /\ initialized
    /\ HandleControlClick(PreviousIndex(currentIndex, maxIndex))
    /\ RecordNav("previous", Unset)
    /\ UNCHANGED <<page, innerWidth, startX>>

\* goToSlide(i): called by a dot's click listener or directly on the instance.
GoToSlide(i) ==
    /\ initialized
    /\ IF GoToAccepted(i, maxIndex)
       THEN Navigate(i)
       ELSE UNCHANGED <<fields, view>>
    /\ RecordArg("goto", i)
    /\ UNCHANGED <<page, innerWidth, startX, timers, autoPlayInterval>>

\* Click on indicator dot i.
DotClick(i) ==
    /\ hasIndicators /\ i \in 0..(dots - 1)
    /\ GoToSlide(i)

\* The autoplay interval id fires: nextSlide().
Tick(id) ==
    /\ id \in activeIntervals
    /\ Navigate(NextIndex(currentIndex, maxIndex))
    /\ RecordNav("tick", Unset)
    /\ UNCHANGED <<page, innerWidth, startX, timers, autoPlayInterval>>

\* mouseenter / focusin on the carousel: pauseAutoPlay().
InteractionStart(op) ==
    LET paused == PauseAutoPlay(autoPlayInterval, activeIntervals)
    IN  /\ initialized
        /\ autoPlayInterval' = paused.handle
        /\ activeIntervals' = paused.active
        /\ Record(op)
        /\ UNCHANGED <<page, innerWidth, initialized, retryCount, currentIndex,
                       totalSlides, slidesVisible, maxIndex, isAutoPlaying, isPaused,
                       startX, initPending, resumePending, debounce, view>>

MouseEnter == InteractionStart("mouseenter")

FocusIn == InteractionStart("focusin")

\* mouseleave, or focusout to outside the carousel: resumeAutoPlayAfterDelay().
InteractionEnd(op) ==
    /\ initialized
    /\ ResumeScheduled(isAutoPlaying, isPaused) => resumePending < MaxPendingResumes
    /\ resumePending' = IF ResumeScheduled(isAutoPlaying, isPaused)
                        THEN resumePending + 1 ELSE resumePending
    /\ Record(op)
    /\ UNCHANGED <<page, innerWidth, fields, startX, initPending, activeIntervals,
                   debounce, view>>

MouseLeave == InteractionEnd("mouseleave")

\* focusout: relatedInside says whether focus moved to an element of the carousel.
FocusOut(relatedInside) ==
    IF relatedInside
    THEN /\ initialized
         /\ UNCHANGED vars
    ELSE InteractionEnd("focusout")

\* touchstart on the track at clientX = x.
TouchStart(x) ==
    /\ initialized
    /\ startX' = x
    /\ Record("touchstart")
    /\ UNCHANGED <<page, innerWidth, fields, timers, view>>

\* touchend on the track at clientX = x, of a touch that started on the track.
TouchEnd(x) ==
    /\ initialized
    /\ startX \in TouchStartXs
    /\ IF IsSwipe(startX, x)
       THEN IF SwipeIsNext(startX, x)
            THEN /\ HandleControlClick(NextIndex(currentIndex, maxIndex))
                 /\ NavHistory("swipeNext", Abs(startX - x))
            ELSE /\ HandleControlClick(PreviousIndex(currentIndex, maxIndex))
                 /\ NavHistory("swipePrevious", Abs(startX - x))
       ELSE /\ UNCHANGED <<fields, timers, view>>
            /\ ArgHistory("touchIgnored", Abs(startX - x))
    /\ TouchHistory(x)
    /\ UNCHANGED <<page, innerWidth, startX>>

\* A resize event with the window at width w (the width may be the one it
\* had); the debounced handler (re)starts its timeout once the carousel has
\* registered it.
ResizeEvent(w) ==
    /\ innerWidth' = w
    /\ IF initialized
       THEN LET set == Debounced(timeout, debounceTimers)
            IN  /\ timeout' = set.handle
                /\ debounceTimers' = set.pending
       ELSE UNCHANGED debounce
    /\ RecordArg("resizeEvent", IF lastOp = "resizeEvent" THEN 2 ELSE 1)
    /\ UNCHANGED <<page, fields, startX, initPending, activeIntervals, resumePending, view>>

\* The debounce timeout id fires: calculateDimensions, createIndicators,
\* updateCarousel(false).
ResizeRecalc(id) ==
    /\ id \in debounceTimers
    /\ debounceTimers' = debounceTimers \ {id}
    /\ timeout' = IF timeout = id THEN NoTimer ELSE timeout
    /\ LET dim == CalculateDimensions(innerWidth, totalSlides, currentIndex)
           n == DotsFor(dim.maxIndex)
           auto == RecalcAutoPlay(isAutoPlaying, autoPlayInterval, activeIntervals,
                                  totalSlides, dim.slidesVisible)
       IN  /\ slidesVisible' = dim.slidesVisible
           /\ maxIndex' = dim.maxIndex
           /\ currentIndex' = dim.currentIndex
           /\ dots' = n
           /\ UpdateCarousel(FALSE, dim.currentIndex, totalSlides, dim.slidesVisible, n, TRUE)
           /\ isAutoPlaying' = auto.playing
           /\ autoPlayInterval' = auto.handle
           /\ activeIntervals' = auto.active
    /\ RecordNav("recalc", Unset)
    /\ UNCHANGED <<page, innerWidth, initialized, retryCount, totalSlides,
                   isPaused, startX, initPending, resumePending>>

\* A resume timeout fires: startAutoPlay().
ResumeFire ==
    /\ resumePending > 0
    /\ Cardinality(activeIntervals) < MaxTimers
    /\ resumePending' = resumePending - 1
    /\ LET started == StartAutoPlay(isAutoPlaying, autoPlayInterval, activeIntervals)
       IN  /\ autoPlayInterval' = started.handle
           /\ activeIntervals' = started.active
    /\ Record("resume")
    /\ UNCHANGED <<page, innerWidth, initialized, retryCount, currentIndex, totalSlides,
                   slidesVisible, maxIndex, isAutoPlaying, isPaused, startX,
                   initPending, debounce, view>>

\* The steps of an instance that only its scheduled calls initialize; the
\* calls of initialize() from outside are steps of InitNext.
Next ==
    \/ DomAppear
    \/ InitializeNoContainer
    \/ InitializeRetry
    \/ InitializeGiveUp
    \/ InitializeOk
    \/ NextClick
    \/ PrevClick
    \/ \E i \in GoToArgs(maxIndex) : GoToSlide(i)
    \/ \E i \in 0..MaxSlides : DotClick(i)
    \/ \E id \in 1..MaxTimers : Tick(id)
    \/ MouseEnter
    \/ FocusIn
    \/ MouseLeave
    \/ \E inside \in BOOLEAN : FocusOut(inside)
    \/ \E x \in TouchStartXs : TouchStart(x)
    \/ \E x \in TouchEndXs : TouchEnd(x)
    \/ \E w \in Widths : ResizeEvent(w)
    \/ \E id \in 1..MaxTimers : ResizeRecalc(id)
    \/ ResumeFire

Spec == Init /\ [][Next]_vars

\* The widths and slide counts of the pages on which initialize() is also
\* called from outside: a phone's and a desktop's width, 2 slides (autoplay
\* only when set up one at a time) and 5 slides (autoplay at every width).
InitWidths == {500, 1200}
InitSlides == {2, 5}

InitSpecInit ==
    /\ Init
    /\ innerWidth \in InitWidths
    /\ domSlides \in InitSlides
    /\ hasIndicators

\* The steps of an instance whose initialize() is run by the scheduled calls
\* and called from outside, before and after it is set up, also while
\* scheduled calls are pending.
InitNext ==
    \/ DomAppear
    \/ InitializeNoContainer
    \/ InitializeRetry
    \/ InitializeGiveUp
    \/ InitializeOk
    \/ InitializeReturned
    \/ InitializeAgain
    \/ NextClick
    \/ \E id \in 1..MaxTimers : Tick(id)
    \/ MouseEnter
    \/ MouseLeave
    \/ \E w \in InitWidths : ResizeEvent(w)
    \/ \E id \in 1..MaxTimers : ResizeRecalc(id)
    \/ ResumeFire

InitSpec == InitSpecInit /\ [][InitNext]_vars

(* ---------------------------- claims ----------------------------------- *)

\* C1: in every state of an initialized carousel, whatever handlers ran,
\* 0 <= currentIndex <= maxIndex.
C1_IndexInRange ==
    initialized => (0 <= currentIndex /\ currentIndex <= maxIndex)

\* A swipe back from the first window wrapped to the last one of the widest range.
C1_Witness ==
    /\ initialized
    /\ lastOp = "swipePrevious"
    /\ prevIndex = 0
    /\ maxIndex = MaxSlides - 1
    /\ currentIndex = maxIndex

\* The live intervals are at most one, and it is the one the handle names.
AtMostOneTimer ==
    /\ Cardinality(activeIntervals) <= 1
    /\ activeIntervals = IF autoPlayInterval = NoTimer THEN {} ELSE {autoPlayInterval}

\* A step that arms an interval starts where none is live.
ArmsOnlyWhenNone ==
    (activeIntervals' \ activeIntervals # {}) => activeIntervals = {}

\* C2: at most one repeating autoplay timer is live in every state, under every
\* interleaving of pause, delayed resumes, clicks, swipes, ticks and resizes,
\* and a timer is armed only in a state where none is live.
C2_AtMostOneTimer == [](AtMostOneTimer) /\ [][ArmsOnlyWhenNone]_vars

\* A resume delay fired and armed the timer while another delay is still pending.
C2_Witness ==
    /\ lastOp = "resume"
    /\ autoPlayInterval # NoTimer
    /\ activeIntervals = {autoPlayInterval}
    /\ resumePending >= 1

\* C3: next() directly followed by previous() returns currentIndex to the value
\* it had before the next(), also when the next() wrapped from maxIndex to 0
\* and when maxIndex = 0.
C3_NextPreviousRoundTrip ==
    (lastOp \in PreviousOps /\ tripStart # Unset) => currentIndex = tripStart

\* A previous() that followed a next() which had wrapped from the last window.
C3_Witness ==
    /\ lastOp = "previous"
    /\ tripStart # Unset
    /\ tripStart = maxIndex
    /\ maxIndex > 0
    /\ prevIndex = 0
    /\ currentIndex = maxIndex

\* C4: next() at maxIndex yields 0 and otherwise adds one; previous() at 0 yields
\* maxIndex and otherwise subtracts one; 7 slides at width 500 have maxIndex 6.
C4_NextPreviousStep ==
    /\ lastOp \in NextOps =>
           currentIndex = IF prevIndex = maxIndex THEN 0 ELSE prevIndex + 1
    /\ lastOp \in PreviousOps =>
           currentIndex = IF prevIndex = 0 THEN maxIndex ELSE prevIndex - 1
    /\ (lastOp \in SetupOps \cup {"recalc"} /\ totalSlides = 7 /\ innerWidth = 500) =>
           maxIndex = 6

\* 7 slides at width 500: next() at index 6 went to 0.
C4_Witness ==
    /\ lastOp = "next"
    /\ totalSlides = 7
    /\ innerWidth = 500
    /\ slidesVisible = 1
    /\ maxIndex = 6
    /\ prevIndex = 6
    /\ currentIndex = 0

\* C5: goToSlide(i) with i < 0 or i > maxIndex changes neither the fields
\* (currentIndex, maxIndex, slidesVisible among them) nor the timers nor the view.
C5_GoToOutOfRangeNoOp ==
    [][(lastOp' = "goto" /\ (lastArg' < 0 \/ lastArg' > maxIndex))
          => UNCHANGED <<fields, timers, view, page, innerWidth, startX>>]_vars

\* goToSlide(maxIndex + 1) ran while the autoplay timer was armed.
C5_Witness ==
    /\ lastOp = "goto"
    /\ lastArg = maxIndex + 1
    /\ currentIndex < maxIndex
    /\ autoPlayInterval # NoTimer

\* C6: in every state of an initialized carousel
\* maxIndex = max(0, totalSlides - slidesVisible).
C6_MaxIndexDerived ==
    initialized =>
        maxIndex = IF totalSlides > slidesVisible
                   THEN totalSlides - slidesVisible ELSE 0

\* A carousel of 2 slides that started with one visible was recalculated at a
\* width showing three: the difference is negative and maxIndex is 0.
C6_Witness ==
    /\ lastOp = "recalc"
    /\ totalSlides = 2
    /\ slidesVisible = 3
    /\ maxIndex = 0
    /\ isAutoPlaying

\* C7: after initialization and after every recalculation slidesVisible is the
\* step function of the width read: <= 768 gives 1, <= 1024 gives 2, else 3.
C7_VisibleStepFunction ==
    lastOp \in SetupOps \cup {"recalc"} =>
        /\ innerWidth <= 768 => slidesVisible = 1
        /\ (768 < innerWidth /\ innerWidth <= 1024) => slidesVisible = 2
        /\ innerWidth > 1024 => slidesVisible = 3

\* A recalculation at the boundary width 1024 of a carousel that showed 3.
C7_Witness ==
    /\ lastOp = "recalc"
    /\ innerWidth = 1024
    /\ slidesVisible = 2
    /\ ~isAutoPlaying
    /\ totalSlides = 3

\* C8: the resize recalculation sets currentIndex to the smaller of its
\* previous value and the new maxIndex.
C8_ResizeClamps ==
    lastOp = "recalc" =>
        currentIndex = IF prevIndex > maxIndex THEN maxIndex ELSE prevIndex

\* A recalculation that moved the index down to the new maxIndex.
C8_Witness ==
    /\ lastOp = "recalc"
    /\ prevIndex > maxIndex
    /\ maxIndex > 0
    /\ currentIndex = maxIndex

\* The state C9 starts from: the window at width 1200, 6 slides, currentIndex 5.
C9_Before ==
    /\ initialized
    /\ innerWidth = 1200
    /\ totalSlides = 6
    /\ currentIndex = 5

\* C9: with 6 slides, a resize from width 1200 to width 700 with
\* currentIndex = 5 leaves currentIndex at 5 and has the recalculation
\* pending; and the recalculation that runs at width 700 on 6 slides with
\* prior currentIndex = 5 gives slidesVisible = 1 and the new maxIndex = 5 and
\* ends with currentIndex = 5, the new maxIndex.  calculateDimensions reads
\* the width, the number of slides and currentIndex; the count shown before
\* is overwritten unread.  (A carousel has index 5 of 6 slides with the window
\* at width 1200 while the recalculation for that width is still pending.)
C9_ResizeEndsAtNewMaxIndex ==
    [][/\ (C9_Before /\ lastOp' = "resizeEvent" /\ innerWidth' = 700) =>
              /\ currentIndex' = 5
              /\ timeout' # NoTimer
              /\ debounceTimers' = {timeout'}
       /\ (lastOp' = "recalc" /\ totalSlides = 6 /\ currentIndex = 5
           /\ innerWidth' = 700) =>
              /\ slidesVisible' = 1
              /\ maxIndex' = 5
              /\ currentIndex' = 5
              /\ currentIndex' = maxIndex']_vars

\* 6 slides at index 5 were recalculated at width 700, the last of a burst
\* of resize events: currentIndex is 5, the new maxIndex.
C9_Witness ==
    /\ lastOp = "recalc"
    /\ totalSlides = 6
    /\ innerWidth = 700
    /\ slidesVisible = 1
    /\ maxIndex = 5
    /\ prevIndex = 5
    /\ currentIndex = 5

\* C10: right after a successful initialization currentIndex = 0, slidesVisible
\* and maxIndex follow from the current width, and the autoplay timer is armed
\* exactly if totalSlides > slidesVisible; otherwise no timer exists, autoplay
\* is disabled and the controls are hidden.
C10_AfterInit ==
    lastOp \in SetupOps =>
        /\ initialized
        /\ currentIndex = 0
        /\ totalSlides = domSlides
        /\ slidesVisible = (IF innerWidth <= 768 THEN 1
                            ELSE IF innerWidth <= 1024 THEN 2 ELSE 3)
        /\ maxIndex = (IF totalSlides > slidesVisible
                       THEN totalSlides - slidesVisible ELSE 0)
        /\ (totalSlides > slidesVisible) =>
               /\ isAutoPlaying
               /\ autoPlayInterval # NoTimer
               /\ activeIntervals = {autoPlayInterval}
               /\ controlsDisplay = "flex"
        /\ (totalSlides <= slidesVisible) =>
               /\ ~isAutoPlaying
               /\ autoPlayInterval = NoTimer
               /\ activeIntervals = {}
               /\ controlsDisplay = "none"

\* 2 slides initialized with three visible: maxIndex 0, no timer, controls hidden.
C10_Witness ==
    /\ lastOp = "init"
    /\ totalSlides = 2
    /\ slidesVisible = 3
    /\ maxIndex = 0
    /\ ~isAutoPlaying
    /\ activeIntervals = {}
    /\ controlsDisplay = "none"

\* C11: in every state of an initialized carousel, also after a resize
\* recalculation changed slidesVisible, totalSlides <= slidesVisible implies
\* that autoplay is disabled: no interval is armed and no tick has just fired.
C11_NoAutoplayWhenAllVisible ==
    (initialized /\ totalSlides <= slidesVisible) =>
        /\ ~isAutoPlaying
        /\ autoPlayInterval = NoTimer
        /\ activeIntervals = {}
        /\ lastOp # "tick"

\* 2 slides were set up one at a time and the window then widened to show
\* three: the interval armed at setup is still live and its tick has just run.
C11_Witness ==
    /\ initialized
    /\ totalSlides = 2
    /\ slidesVisible = 3
    /\ innerWidth = 1200
    /\ lastOp = "tick"
    /\ autoPlayInterval # NoTimer
    /\ activeIntervals = {autoPlayInterval}

\* The handlers after which the controls' display has been (re)computed:
\* initialization and every repositioning (next, previous, accepted or rejected
\* goto, tick, swipe, resize recalculation).
RepositionOps == {"init", "callInit", "next", "previous", "swipeNext", "swipePrevious",
                  "goto", "tick", "recalc"}

\* C12: after initialization and after every repositioning transition the
\* previous and next controls are shown (display flex) exactly if
\* totalSlides > slidesVisible, and hidden (display none) otherwise; as the
\* other handlers leave the display and the two counts alone, this holds in
\* every state of an initialized carousel.
C12_ControlsShownIffOverflow ==
    /\ lastOp \in RepositionOps =>
           /\ initialized
           /\ controlsDisplay = (IF totalSlides > slidesVisible THEN "flex" ELSE "none")
    /\ initialized =>
           /\ (controlsDisplay = "flex") <=> (totalSlides > slidesVisible)
           /\ (controlsDisplay = "none") <=> (totalSlides <= slidesVisible)

\* 3 slides were set up with autoplay (fewer than 3 visible) and a resize
\* recalculation then made all 3 visible: the controls went from shown to hidden.
C12_Witness ==
    /\ lastOp = "recalc"
    /\ totalSlides = 3
    /\ slidesVisible = 3
    /\ isAutoPlaying
    /\ controlsDisplay = "none"

\* The events that start a user interaction with the carousel.
InteractionStartOps == {"mouseenter", "focusin", "touchstart"}

\* C13: right after a mouseenter, a focusin or a touchstart on the carousel no
\* autoplay interval is armed.
C13_InteractionStartCancels ==
    lastOp \in InteractionStartOps =>
        /\ autoPlayInterval = NoTimer
        /\ activeIntervals = {}

\* A touch has just started on a carousel whose autoplay interval is armed: the
\* interval is still live.
C13_Witness ==
    /\ lastOp = "touchstart"
    /\ isAutoPlaying
    /\ autoPlayInterval # NoTimer
    /\ activeIntervals = {autoPlayInterval}

\* The part of C13 the handlers do keep: mouseenter and focusin cancel the interval.
C13_HoverFocusCancel ==
    lastOp \in {"mouseenter", "focusin"} =>
        /\ autoPlayInterval = NoTimer
        /\ activeIntervals = {}

\* C14: while the pointer is over the carousel or the focus is inside it, no
\* autoplay interval is armed and no tick moves currentIndex, whatever resume
\* timeouts were scheduled before the interaction started.  Stated for the
\* callback that runs first after a mouseenter or a focusin (the interaction
\* is in progress then): if it is a resume timeout scheduled earlier or a
\* tick, it leaves no interval armed and currentIndex where it was.
C14_PausedWhileInteracting ==
    [][(lastOp \in {"mouseenter", "focusin"} /\ lastOp' \in {"resume", "tick"}) =>
           /\ autoPlayInterval' = NoTimer
           /\ activeIntervals' = {}
           /\ currentIndex' = currentIndex]_vars

\* The handlers that end a user interaction: each of them finishes with
\* resumeAutoPlayAfterDelay().
InteractionEndOps == {"mouseleave", "focusout", "next", "previous",
                      "swipeNext", "swipePrevious"}

\* Pages sampled for the liveness check: 2 slides (autoplay enabled only when
\* set up one at a time) and 4 slides (enabled at every width).
FairInit == Init /\ domSlides \in {2, 4}

\* A timeout the browser has scheduled does fire: the event loop runs the
\* callback of setTimeout(() => this.startAutoPlay(), 1000) once the delay is over.
FairSpec == FairInit /\ [][Next]_vars /\ WF_vars(ResumeFire)

\* C15: with autoplay enabled, once a user interaction has ended (mouseleave,
\* focus leaving the carousel, a control click or a recognized swipe) the
\* autoplay interval is eventually armed again.
C15_ResumeRearms ==
    (isAutoPlaying /\ lastOp \in InteractionEndOps) ~>
        (autoPlayInterval # NoTimer /\ activeIntervals = {autoPlayInterval})

\* The resume timeout scheduled by the last interaction has fired and armed the
\* interval; no other resume is pending.
C15_Witness ==
    /\ lastOp = "resume"
    /\ isAutoPlaying
    /\ resumePending = 0
    /\ autoPlayInterval # NoTimer
    /\ activeIntervals = {autoPlayInterval}

\* C16: an autoplay tick runs only while the autoplay interval is armed, and
\* it does what next() does from the same state: currentIndex becomes 0 past
\* maxIndex and currentIndex + 1 otherwise, the track slides to it with the
\* animated transition, and the timers, the handle and the dimensions stay as
\* they were.
C16_TickIsNext ==
    [][lastOp' = "tick" =>
           /\ initialized
           /\ autoPlayInterval # NoTimer
           /\ activeIntervals = {autoPlayInterval}
           /\ currentIndex' = (IF currentIndex + 1 > maxIndex THEN 0
                               ELSE currentIndex + 1)
           /\ trackSlide' = currentIndex'
           /\ transition' = "slide"
           /\ UNCHANGED <<autoPlayInterval, isAutoPlaying, isPaused, timers,
                          totalSlides, slidesVisible, maxIndex, dots,
                          controlsDisplay>>]_vars

\* A tick on the last of three windows of 4 slides wrapped to the first; the
\* interval is still armed.
C16_Witness ==
    /\ lastOp = "tick"
    /\ totalSlides = 4
    /\ maxIndex = 2
    /\ prevIndex = 2
    /\ currentIndex = 0
    /\ transition = "slide"
    /\ activeIntervals = {autoPlayInterval}
    /\ autoPlayInterval # NoTimer

\* Nothing of the carousel exists: no state field is assigned, no timer of the
\* instance is live or pending, the view is untouched.
Inert ==
    /\ currentIndex = Unset /\ totalSlides = Unset
    /\ slidesVisible = Unset /\ maxIndex = Unset
    /\ autoPlayInterval = NoTimer /\ ~isAutoPlaying
    /\ activeIntervals = {} /\ resumePending = 0 /\ debounceTimers = {}
    /\ transition = "unset" /\ dots = 0 /\ controlsDisplay = "unset"

\* C17: while a required element is missing the retries are bounded
\* (retryCount never passes maxRetries), whether the scheduled calls or calls
\* from outside use them up; a call that finds no retry left leaves the
\* instance uninitialized with all retries used; an uninitialized instance is
\* inert; and an instance that has used up its retries stays uninitialized
\* for as long as the required elements stay missing: no call schedules a
\* further one, and every scheduled call that runs leaves one fewer pending.
C17_InertAfterGivingUp ==
    /\ [](retryCount <= maxRetries)
    /\ [](lastOp \in {"initGiveUp", "callGiveUp"} =>
              ~initialized /\ retryCount = maxRetries)
    /\ [](~initialized => Inert)
    /\ [][(~initialized /\ retryCount = maxRetries /\ ~elementsPresent') =>
              /\ ~initialized'
              /\ initPending' <= initPending
              /\ attempts' # attempts => initPending' < initPending]_vars

\* The required elements never appeared: all maxRetries retries were used, the
\* last of the maxRetries + 1 scheduled calls has run, the window was resized
\* afterwards, and the instance is still inert with nothing pending.
C17_Witness ==
    /\ containerPresent /\ ~elementsPresent
    /\ lastOp = "resizeEvent"
    /\ retryCount = maxRetries
    /\ attempts = maxRetries + 1
    /\ ~initialized /\ initPending = 0
    /\ Inert

\* C18 as stated: with the required elements never present, initialize() is
\* run at most 5 times in total by the constructor and the retry timeouts.
C18_AtMostFiveAttempts ==
    ~elementsPresent => attempts <= 5

\* C18 amended: with the required elements never present, the scheduled calls
\* (the constructor's and the retries') run initialize() at most 6 times in
\* total, the first attempt and at most 5 retries; every retry accounts for
\* one scheduled call, run or still pending.
C18_AtMostSixAttempts ==
    /\ ~elementsPresent => (attempts <= 6 /\ retryCount <= 5)
    /\ attempts + initPending = 1 + retryCount

\* The container is there, the elements never came: the 6th attempt gave up.
C18_Witness ==
    /\ lastOp = "initGiveUp"
    /\ containerPresent /\ ~elementsPresent
    /\ attempts = 6
    /\ retryCount = 5
    /\ initPending = 0

\* C19: an attempt that does not find the container is retried like one that
\* misses any other required element: while retries remain, another attempt is
\* scheduled, so that a container appearing later is still initialized.
C19_MissingContainerRetried ==
    (lastOp = "initNoContainer" /\ retryCount < maxRetries) => initPending > 0

\* The first attempt found no container; the container and its elements
\* appeared afterwards, and the instance is uninitialized with no attempt left.
C19_Witness ==
    /\ lastOp = "initNoContainer"
    /\ containerPresent /\ elementsPresent
    /\ attempts = 1
    /\ retryCount = 0
    /\ initPending = 0
    /\ ~initialized

\* C20: a touch that ends at most 50 away from where it started is ignored: it
\* runs neither nextSlide nor previousSlide (only displacements above 50 do),
\* and it leaves currentIndex, every other field, the interval, the pending
\* resumes and the view as they were.
C20_ShortTouchIgnored ==
    /\ [](lastOp \in {"swipeNext", "swipePrevious"} => lastArg > 50)
    /\ [](lastOp = "touchIgnored" => lastArg <= 50)
    /\ [][lastOp' = "touchIgnored" => UNCHANGED <<fields, timers, view>>]_vars

\* A touch that moved by exactly 50 ended on a carousel on its second window
\* with the interval armed and a resume pending: all of that is still so.
C20_Witness ==
    /\ lastOp = "touchIgnored"
    /\ lastArg = 50
    /\ currentIndex = 1
    /\ activeIntervals = {autoPlayInterval}
    /\ autoPlayInterval # NoTimer
    /\ resumePending = 1

\* C21: a touch that ends more than 50 away from where it started runs exactly
\* one navigation: nextSlide, once, when it ended left of its start, and
\* previousSlide, once, when it ended right of it; currentIndex is one step
\* (with wrap-around) from where it was, in that direction, and the dimensions
\* are untouched.
C21_SwipeDirection ==
    /\ lastOp = "swipeNext" =>
           /\ lastEndX < startX
           /\ startX - lastEndX > 50
           /\ currentIndex = (IF prevIndex + 1 > maxIndex THEN 0 ELSE prevIndex + 1)
    /\ lastOp = "swipePrevious" =>
           /\ lastEndX > startX
           /\ lastEndX - startX > 50
           /\ currentIndex = (IF prevIndex - 1 < 0 THEN maxIndex ELSE prevIndex - 1)
    /\ (lastEndX # Unset /\ (lastEndX - startX > 50 \/ startX - lastEndX > 50)) =>
           lastOp \in {"swipeNext", "swipePrevious"}

\* A touch from 0 to -60 (60 to the left) on the second of five windows moved
\* the carousel to the third.
C21_Witness ==
    /\ lastOp = "swipeNext"
    /\ startX = 0
    /\ lastEndX = -60
    /\ maxIndex = 4
    /\ prevIndex = 1
    /\ currentIndex = 2

\* C22: resize handling is debounced.  At most one timeout of the debounced
\* handler is pending at any time, and it is the one the handler set last;
\* every resize event of a burst leaves exactly that one pending (the one set by
\* the previous event is cleared); and the recalculation, which runs when the
\* pending timeout fires, hence a quiet period after the last event, leaves
\* none pending: a burst causes one recalculation.
C22_ResizeDebounced ==
    /\ Cardinality(debounceTimers) <= 1
    /\ debounceTimers = (IF timeout = NoTimer THEN {} ELSE {timeout})
    /\ (initialized /\ lastOp = "resizeEvent") => debounceTimers # {}
    /\ lastOp = "recalc" => debounceTimers = {}

\* A resize event directly followed another one on an initialized carousel:
\* one timeout is pending and the dimensions are still those of the old width.
C22_Witness ==
    /\ initialized
    /\ lastOp = "resizeEvent"
    /\ lastArg = 2
    /\ innerWidth = 1200
    /\ slidesVisible = 1
    /\ timeout # NoTimer
    /\ debounceTimers = {timeout}

\* C23: on a page with an indicator strip, after initialization and after
\* every later handler (navigation, tick, resize recalculation) the strip holds
\* exactly maxIndex + 1 dots and exactly one of them is active, the one at
\* position currentIndex.
C23_IndicatorsMatch ==
    (initialized /\ hasIndicators) =>
        /\ dots = maxIndex + 1
        /\ activeDot = currentIndex
        /\ activeDot \in 0..(dots - 1)

\* 7 slides shown one at a time stood on the last one when the window widened
\* to three visible: the strip was rebuilt with 5 dots and the last is active.
C23_Witness ==
    /\ hasIndicators
    /\ lastOp = "recalc"
    /\ totalSlides = 7
    /\ slidesVisible = 3
    /\ prevIndex = 6
    /\ currentIndex = 4
    /\ dots = 5
    /\ activeDot = 4

\* C24: the repositioning done by initialization and by a resize recalculation
\* is a jump (transition none), the one done by next, previous, a swipe, an
\* accepted goToSlide and an autoplay tick is a slide (animated transition);
\* either way the track stands at the slide currentIndex names.
C24_JumpOrSlide ==
    /\ lastOp \in SetupOps \cup {"recalc"} => transition = "none"
    /\ lastOp \in {"next", "previous", "swipeNext", "swipePrevious", "tick"} =>
           transition = "slide"
    /\ (lastOp = "goto" /\ 0 <= lastArg /\ lastArg <= maxIndex) => transition = "slide"
    /\ lastOp \in RepositionOps => trackSlide = currentIndex

\* A resize recalculation that moved nothing followed animated navigation: the
\* transition went from slide back to none on the third window.
C24_Witness ==
    /\ lastOp = "recalc"
    /\ transition = "none"
    /\ prevIndex = 2
    /\ currentIndex = 2
    /\ trackSlide = 2

(* --------------- the header controller's language preference ------------- *)
\* HeaderController (src/script.js 638-1148) keeps the chosen language in the
\* field currentLanguage and under the localStorage key selectedLanguage.  The
\* header markup (language button, dropdown, options) is taken to be present,
\* as the handlers of the dropdown dereference it without a test.

\* The keys of the translations table, and a property every object literal
\* inherits: translations[code] is truthy for both.
TranslationCodes == {"en", "es", "ur"}
ObjectPrototypeKeys == {"toString"}

\* The keys both keydown listeners treat as an activation.
ActivationKeys == {"Enter", " "}

\* The keys pressed somewhere in the document.
HeaderKeys == {"Escape", "Tab"}

\* The keys pressed on the language button and on a language option.
SwitcherKeys == {"Enter", " ", "ArrowDown", "Tab"}

\* What the store can be like and can hold; what data-lang of a clicked
\* option can be.
StoreModes == {"ok", "readonly", "denied"}
StoredValues == {"absent", "", "en", "es", "ur", "fr", "toString"}
LangArgs == {"en", "es", "ur", "fr", "toString"}

\* translations[langCode] as a condition.
HasTranslation(langCode) == langCode \in TranslationCodes \cup ObjectPrototypeKeys

\* langMap[langCode] || 'EN' of updateLanguageDisplay; an inherited property
\* is a function, shown as its source text.
LangMap(langCode) ==
    CASE langCode = "en" -> "EN"
      [] langCode = "es" -> "ES"
      [] langCode = "ur" -> "UR"
      [] langCode \in ObjectPrototypeKeys -> "function"
      [] OTHER -> "EN"

\* localStorage.setItem inside its try: the value is kept when the store
\* takes writes, and the exception is swallowed when it does not.
SetItem(mode, old, value) == IF mode = "ok" THEN value ELSE old

\* h is the controller with the page and the store's value, and whether the
\* call threw: [currentLanguage, languageDisplay, documentLang,
\* isLanguageDropdownOpen, stored, threw].
ChangeLanguageNoSave(langCode, h, mode) ==
    IF ~HasTranslation(langCode)
    THEN h
    ELSE [currentLanguage |-> langCode,
          languageDisplay |-> LangMap(langCode),
          documentLang |-> langCode,
          isLanguageDropdownOpen |-> FALSE,
          stored |-> h.stored,
          threw |-> FALSE]

\* Mutant: setItem is called outside a try, so a refused write ends the call
\* after the field and the button text were set.
ChangeLanguageUncaught(langCode, h, mode) ==
    IF ~HasTranslation(langCode)
    THEN h
    ELSE IF mode # "ok"
    THEN [h EXCEPT !.currentLanguage = langCode,
                   !.languageDisplay = LangMap(langCode),
                   !.threw = TRUE]
    ELSE [currentLanguage |-> langCode,
          languageDisplay |-> LangMap(langCode),
          documentLang |-> langCode,
          isLanguageDropdownOpen |-> FALSE,
          stored |-> langCode,
          threw |-> FALSE]

\* changeLanguage(langCode): an unknown code changes nothing; otherwise the
\* field, the button text, the store, the document language, and the dropdown
\* is closed.  The catch around setItem keeps a refused write from ending
\* the call.
ChangeLanguage(langCode, h, mode) ==
    IF ~HasTranslation(langCode)
    THEN h
    ELSE [currentLanguage |-> langCode,
          languageDisplay |-> LangMap(langCode),
          documentLang |-> langCode,
          isLanguageDropdownOpen |-> FALSE,
          stored |-> SetItem(mode, h.stored, langCode),
          threw |-> FALSE]

\* localStorage.getItem('selectedLanguage'): "threw" when the store refuses
\* access, else the value ("absent" for null).
GetItem(mode, value) == IF mode = "denied" THEN "threw" ELSE value

\* The result of a load: the controller and whether an exception left it.
LoadResult(h, threw) == [h |-> h, threw |-> threw]

\* Mutant: the try/catch is missing.
LoadSavedLanguageNoCatch(h, mode) ==
    LET got == GetItem(mode, h.stored)
        savedLanguage == IF got \in {"absent", ""} THEN "en" ELSE got
        first == ChangeLanguage(savedLanguage, h, mode)
    IN  IF got = "threw"
        THEN LoadResult(h, TRUE)
        ELSE LoadResult(first, first.threw)

\* loadSavedLanguage(): getItem(...) || 'en' goes to changeLanguage; when
\* getItem or that call throws, the catch calls changeLanguage('en'), and
\* what that call throws leaves.
LoadSavedLanguage(h, mode) ==
    LET got == GetItem(mode, h.stored)
        savedLanguage == IF got \in {"absent", ""} THEN "en" ELSE got
        first == ChangeLanguage(savedLanguage, h, mode)
        caught == IF got = "threw" THEN h ELSE [first EXCEPT !.threw = FALSE]
        fallback == ChangeLanguage("en", caught, mode)
    IN  IF got = "threw" \/ first.threw
        THEN LoadResult(fallback, fallback.threw)
        ELSE LoadResult(first, FALSE)

\* The steps of the DOMContentLoaded handler, lines 1504-1541, in order: five
\* constructor calls and two function calls, named by the identifier each
\* looks up.
BootSteps ==
    <<"HeaderController", "HeroController", "ServicesController",
      "TestimonialsController", "FAQController", "initSmoothScrolling",
      "initIntersectionObserver">>

\* The classes and functions the script declares (lines 38, 398, 638, 1149,
\* 1430, 1443, 1460, 1481).
Declared ==
    {"ServicesController", "HeroController", "HeaderController",
     "TestimonialsController", "scrollToContact", "openWhatsApp",
     "initSmoothScrolling", "initIntersectionObserver"}

\* The handler from step k on, after the steps done: a step whose identifier
\* is not declared throws a ReferenceError, which ends the handler; the last
\* step is skipped in a browser without IntersectionObserver.
RECURSIVE RunBoot(_, _, _)
RunBoot(k, done, hasObserver) ==
    IF k > Len(BootSteps)
    THEN [done |-> done, error |-> "none"]
    ELSE IF BootSteps[k] \notin Declared
    THEN [done |-> done, error |-> BootSteps[k]]
    ELSE IF BootSteps[k] = "initIntersectionObserver" /\ ~hasObserver
    THEN RunBoot(k + 1, done, hasObserver)
    ELSE RunBoot(k + 1, Append(done, BootSteps[k]), hasObserver)

\* Boolean.prototype.toString().
BoolString(b) == IF b THEN "true" ELSE "false"

\* Mutant: the scroll lock is set on opening and never released.
ToggleMobileMenuKeepsLock(m) ==
    LET open == ~m.isMobileMenuOpen
    IN  [isMobileMenuOpen |-> open,
         bodyOverflow |-> IF open THEN "hidden" ELSE m.bodyOverflow,
         toggleAriaExpanded |-> BoolString(open)]

\* toggleMobileMenu(), lines 858-884, on m = [isMobileMenuOpen, bodyOverflow,
\* toggleAriaExpanded].
ToggleMobileMenu(m) ==
    LET open == ~m.isMobileMenuOpen
    IN  [isMobileMenuOpen |-> open,
         bodyOverflow |-> IF open THEN "hidden" ELSE "",
         toggleAriaExpanded |-> BoolString(open)]

\* The outcome of a handler on the menu and the dropdown.
HeaderResult(m, dropdownOpen) == [menu |-> m, dropdown |-> dropdownOpen]

\* handleOutsideClick(e) at window width w: inSwitcher says the target is in
\* the language button or dropdown, inNav that it is in the nav or the
\* mobile toggle.
HandleOutsideClick(w, inSwitcher, inNav, m, dropdownOpen) ==
    HeaderResult(IF w <= HeaderMobileMaxWidth /\ ~inNav /\ m.isMobileMenuOpen
                 THEN ToggleMobileMenu(m) ELSE m,
                 IF ~inSwitcher THEN FALSE ELSE dropdownOpen)

\* handleResize() at window width w.
HandleResize(w, m, dropdownOpen) ==
    HeaderResult(IF w > HeaderMobileMaxWidth /\ m.isMobileMenuOpen
                 THEN ToggleMobileMenu(m) ELSE m,
                 FALSE)

\* Mutant: the two tests are alternatives, so Escape closes the dropdown only
\* when both are open.
HandleEscapeKeyElse(key, m, dropdownOpen) ==
    IF key # "Escape"
    THEN HeaderResult(m, dropdownOpen)
    ELSE IF dropdownOpen
    THEN HeaderResult(m, FALSE)
    ELSE HeaderResult(IF m.isMobileMenuOpen THEN ToggleMobileMenu(m) ELSE m, FALSE)

\* handleEscapeKey(e).
HandleEscapeKey(key, m, dropdownOpen) ==
    IF key # "Escape"
    THEN HeaderResult(m, dropdownOpen)
    ELSE HeaderResult(IF m.isMobileMenuOpen THEN ToggleMobileMenu(m) ELSE m, FALSE)

\* The menu as a record, for the operators above.
MenuNow ==
    [isMobileMenuOpen |-> isMobileMenuOpen,
     bodyOverflow |-> bodyOverflow,
     toggleAriaExpanded |-> toggleAriaExpanded]

SetMenu(m) ==
    /\ isMobileMenuOpen' = m.isMobileMenuOpen
    /\ bodyOverflow' = m.bodyOverflow
    /\ toggleAriaExpanded' = m.toggleAriaExpanded

\* The controller as a record, for the operators above.
HeaderNow ==
    [currentLanguage |-> currentLanguage,
     languageDisplay |-> languageDisplay,
     documentLang |-> documentLang,
     isLanguageDropdownOpen |-> isLanguageDropdownOpen,
     stored |-> stored,
     threw |-> FALSE]

SetHeader(h) ==
    /\ currentLanguage' = h.currentLanguage
    /\ languageDisplay' = h.languageDisplay
    /\ documentLang' = h.documentLang
    /\ isLanguageDropdownOpen' = h.isLanguageDropdownOpen
    /\ stored' = h.stored

\* The DOMContentLoaded handler: new HeaderController() (the constructor's
\* defaults, then init() runs loadSavedLanguage()), then the remaining steps
\* unless the constructor threw.
HeaderConstruct ==
    /\ ~headerLoaded
    /\ LET built == [HeaderNow EXCEPT !.currentLanguage = "en",
                                      !.isLanguageDropdownOpen = FALSE]
           res == LoadSavedLanguage(built, storeMode)
       IN  /\ SetHeader(res.h)
           /\ loadThrew' = res.threw
           /\ \E hasObserver \in BOOLEAN :
                  LET ran == IF res.threw
                             THEN [done |-> <<>>, error |-> "none"]
                             ELSE RunBoot(2, <<BootSteps[1]>>, hasObserver)
                  IN  /\ bootDone' = ran.done
                      /\ bootError' = ran.error
    /\ clickThrew' = FALSE
    /\ headerLoaded' = TRUE
    /\ hLastOp' = "load"
    /\ hArg' = GetItem(storeMode, stored)
    /\ UNCHANGED <<storeMode, hExpect, hBefore, menu, hResizePending, offHeader>>

\* A click on a language option: changeLanguage(e.target.dataset.lang), then
\* the document's click listener (the switcher is inside the nav or not).
LanguageOptionClick(langCode) ==
    /\ headerLoaded
    /\ LET res == ChangeLanguage(langCode, HeaderNow, storeMode)
       IN  /\ SetHeader(res)
           /\ clickThrew' = res.threw
           /\ \E inNav \in BOOLEAN :
                  SetMenu(HandleOutsideClick(innerWidth, TRUE, inNav, MenuNow,
                                             res.isLanguageDropdownOpen).menu)
    /\ hLastOp' = "change"
    /\ hArg' = langCode
    /\ hExpect' = IF ~HasTranslation(langCode) THEN hExpect
                  ELSE IF storeMode = "ok" THEN langCode ELSE "none"
    /\ UNCHANGED <<storeMode, headerLoaded, loadThrew, boot, hBefore, hResizePending, offHeader>>

\* A click on the language button: toggleLanguageDropdown(), then the
\* document's click listener.
ToggleLanguageDropdown ==
    /\ headerLoaded
    /\ isLanguageDropdownOpen' = ~isLanguageDropdownOpen
    /\ \E inNav \in BOOLEAN :
           SetMenu(HandleOutsideClick(innerWidth, TRUE, inNav, MenuNow,
                                      ~isLanguageDropdownOpen).menu)
    /\ hLastOp' = "toggle"
    /\ hArg' = "none"
    /\ UNCHANGED <<store, headerLoaded, currentLanguage, loadThrew, clickThrew,
                   headerView, hExpect, hBefore, boot, hResizePending, offHeader>>

\* The keydown of a key on language option langCode (lines 733-752): Enter
\* or Space calls changeLanguage(option.dataset.lang); Tab without Shift calls
\* closeLanguageDropdown(); the arrows move the focus.  The event goes on to
\* the document's keydown listener, which acts on Escape only.
LanguageOptionKey(langCode, key, shiftKey) ==
    /\ headerLoaded
    /\ ~loadThrew
    /\ LET changed == IF key \in ActivationKeys
                      THEN ChangeLanguage(langCode, HeaderNow, storeMode)
                      ELSE HeaderNow
           res == IF key = "Tab" /\ ~shiftKey
                  THEN [changed EXCEPT !.isLanguageDropdownOpen = FALSE]
                  ELSE changed
       IN  /\ SetHeader(res)
           /\ clickThrew' = IF key \in ActivationKeys THEN res.threw ELSE clickThrew
    /\ hLastOp' = IF key \in ActivationKeys THEN "change" ELSE "optionKey"
    /\ hArg' = IF key \in ActivationKeys THEN langCode ELSE key
    /\ hExpect' = IF key \notin ActivationKeys \/ ~HasTranslation(langCode) THEN hExpect
                  ELSE IF storeMode = "ok" THEN langCode ELSE "none"
    /\ hBefore' = <<isMobileMenuOpen, isLanguageDropdownOpen>>
    /\ UNCHANGED <<storeMode, headerLoaded, loadThrew, boot, menu, hResizePending,
                   offHeader>>

\* What the handlers of the menu leave alone.
offMenu == <<store, headerLoaded, currentLanguage, loadThrew, clickThrew, headerView,
             hExpect, boot, offHeader>>

\* The dropdown and the menu after a handler, and its record in the history.
MenuStep(res, op, arg) ==
    /\ SetMenu(res.menu)
    /\ isLanguageDropdownOpen' = res.dropdown
    /\ hLastOp' = op
    /\ hArg' = arg
    /\ hBefore' = <<isMobileMenuOpen, isLanguageDropdownOpen>>
    /\ UNCHANGED offMenu

\* A click on the mobile toggle: toggleMobileMenu(), then the document's
\* click listener.
MobileToggleClick ==
    /\ headerLoaded
    /\ MenuStep(HandleOutsideClick(innerWidth, FALSE, TRUE, ToggleMobileMenu(MenuNow),
                                   isLanguageDropdownOpen),
                "menuToggle", "click")
    /\ UNCHANGED hResizePending

\* The keydown of Enter or Space on the focused mobile toggle: the keydown
\* listener calls toggleMobileMenu() and cancels the event; the document's
\* keydown listener sees a key other than Escape.  A click the browser still
\* makes when Space is released is an event of its own (MobileToggleClick).
\* The listener is set up after loadSavedLanguage() in init().
MobileToggleKey(key) ==
    /\ headerLoaded
    /\ ~loadThrew
    /\ MenuStep(HandleEscapeKey(key, ToggleMobileMenu(MenuNow), isLanguageDropdownOpen),
                "menuToggle", key)
    /\ UNCHANGED hResizePending

\* The keydown of a key on the language button (lines 715-730): Enter or
\* Space calls toggleLanguageDropdown(); ArrowDown opens a closed dropdown.
\* The event goes on to the document's keydown listener.
LanguageButtonKey(key) ==
    /\ headerLoaded
    /\ ~loadThrew
    /\ LET toggled == IF key \in ActivationKeys
                      THEN ~isLanguageDropdownOpen ELSE isLanguageDropdownOpen
           opened == IF key = "ArrowDown" THEN TRUE ELSE toggled
       IN  MenuStep(HandleEscapeKey(key, MenuNow, opened), "buttonKey", key)
    /\ UNCHANGED hResizePending

\* A click on a nav link: the link's listener closes an open menu, then the
\* document's click listener.
NavLinkClick ==
    /\ headerLoaded
    /\ LET closed == IF isMobileMenuOpen THEN ToggleMobileMenu(MenuNow) ELSE MenuNow
       IN  MenuStep(HandleOutsideClick(innerWidth, FALSE, TRUE, closed,
                                       isLanguageDropdownOpen),
                    "navLink", "none")
    /\ UNCHANGED hResizePending

\* A click anywhere outside the nav, the toggle and the language switcher.
OutsideClick ==
    /\ headerLoaded
    /\ MenuStep(HandleOutsideClick(innerWidth, FALSE, FALSE, MenuNow,
                                   isLanguageDropdownOpen),
                "outsideClick", "none")
    /\ UNCHANGED hResizePending

\* A keydown reaching the document.
KeyDown(key) ==
    /\ headerLoaded
    /\ MenuStep(HandleEscapeKey(key, MenuNow, isLanguageDropdownOpen), "key", key)
    /\ UNCHANGED hResizePending

\* A resize event with the window at width w: the header's debounced
\* listener (re)starts its 250 ms timeout.
HeaderResizeEvent(w) ==
    /\ headerLoaded
    /\ innerWidth' = w
    /\ hResizePending' = TRUE
    /\ hLastOp' = "resizeEvent"
    /\ hArg' = "none"
    /\ UNCHANGED <<store, headerFields, headerView, hExpect, hBefore, boot, menu,
                   page, fields, startX, timers, view, history, pair, widgets>>

\* The header's debounce timeout fires: handleResize().
HeaderResizeFire ==
    /\ hResizePending
    /\ hResizePending' = FALSE
    /\ MenuStep(HandleResize(innerWidth, MenuNow, isLanguageDropdownOpen),
                "resizeFire", "none")

\* The page is left: the controller and the document go, the store stays.
PageUnload ==
    /\ headerLoaded
    /\ headerLoaded' = FALSE
    /\ currentLanguage' = "unset"
    /\ isLanguageDropdownOpen' = FALSE
    /\ loadThrew' = FALSE
    /\ clickThrew' = FALSE
    /\ bootDone' = <<>>
    /\ bootError' = "none"
    /\ isMobileMenuOpen' = FALSE
    /\ bodyOverflow' = ""
    /\ toggleAriaExpanded' = "false"
    /\ hResizePending' = FALSE
    /\ languageDisplay' = "markup"
    /\ documentLang' = "markup"
    /\ hLastOp' = "unload"
    /\ hArg' = "none"
    /\ hBefore' = <<FALSE, FALSE>>
    /\ UNCHANGED <<store, hExpect, offHeader>>

\* The environment changes the store: another page writes or removes the
\* key, or the browser's storage setting changes.
StoreEdit(mode, value) ==
    /\ <<mode, value>> # <<storeMode, stored>>
    /\ storeMode' = mode
    /\ stored' = value
    /\ hLastOp' = "storeEdit"
    /\ hArg' = "none"
    /\ hExpect' = "none"
    /\ UNCHANGED <<headerFields, headerView, boot, hBefore, menu, hResizePending, offHeader>>

\* The header on a page without the carousel, over any store.
HeaderSpecInit ==
    /\ HeaderInit
    /\ storeMode \in StoreModes
    /\ stored \in StoredValues
    /\ CarouselInit
    /\ ~containerPresent /\ ~elementsPresent /\ domSlides = 1
    /\ hasIndicators /\ innerWidth = 1200
    /\ NoPair
    /\ NoWidgets

HeaderNext ==
    \/ HeaderConstruct
    \/ \E langCode \in LangArgs : LanguageOptionClick(langCode)
    \/ ToggleLanguageDropdown
    \/ MobileToggleClick
    \/ \E key \in ActivationKeys : MobileToggleKey(key)
    \/ \E key \in SwitcherKeys : LanguageButtonKey(key)
    \/ \E langCode \in LangArgs, key \in SwitcherKeys, shiftKey \in BOOLEAN :
           LanguageOptionKey(langCode, key, shiftKey)
    \/ NavLinkClick
    \/ OutsideClick
    \/ \E key \in HeaderKeys : KeyDown(key)
    \/ \E w \in Widths : HeaderResizeEvent(w)
    \/ HeaderResizeFire
    \/ PageUnload
    \/ \E mode \in StoreModes, value \in StoredValues : StoreEdit(mode, value)

HeaderSpec == HeaderSpecInit /\ [][HeaderNext]_vars

\* C25: when the load's read of the preference threw or gave no value, the
\* controller ends loading with currentLanguage = 'en' (shown as EN) and no
\* exception has left the load.
C25_FallbackToDefault ==
    (hLastOp = "load" /\ hArg \in {"threw", "absent"}) =>
        /\ currentLanguage = "en"
        /\ languageDisplay = "EN"
        /\ ~loadThrew

C25_Witness ==
    /\ hLastOp = "load" /\ hArg = "threw" /\ storeMode = "denied"
    /\ stored = "ur" /\ currentLanguage = "en" /\ ~loadThrew

\* C26: with a working store, right after changeLanguage(l) for l in
\* {en, es, ur} the stored value and currentLanguage are l; and while nothing
\* else touches the store, a controller constructed afterwards ends loading
\* with currentLanguage = l.
C26_PreferencePersists ==
    /\ (hLastOp = "change" /\ hArg \in TranslationCodes /\ storeMode = "ok") =>
           /\ stored = hArg
           /\ currentLanguage = hArg
           /\ hExpect = hArg
    /\ (hExpect \in TranslationCodes) => (storeMode = "ok" /\ stored = hExpect)
    /\ (hLastOp = "load" /\ hExpect \in TranslationCodes) =>
           (currentLanguage = hExpect /\ ~loadThrew)

C26_Witness ==
    /\ hLastOp = "load" /\ hExpect = "ur" /\ hArg = "ur"
    /\ currentLanguage = "ur" /\ languageDisplay = "UR" /\ stored = "ur"

\* C27: a carousel whose autoplay was disabled at setup stays disabled, and
\* no step (hover, focus, click, swipe, resume delay, resize, recalculation)
\* arms an autoplay interval or schedules a resume for it, also when a
\* recalculation has left more slides than fit.
C27_DisabledNeverArms ==
    /\ [](( initialized /\ ~isAutoPlaying) =>
             (autoPlayInterval = NoTimer /\ activeIntervals = {} /\ resumePending = 0))
    /\ [][(initialized /\ ~isAutoPlaying) =>
             /\ ~isAutoPlaying'
             /\ autoPlayInterval' = NoTimer
             /\ activeIntervals' = {}
             /\ resumePending' = 0]_vars

C27_Witness ==
    /\ initialized /\ ~isAutoPlaying /\ lastOp = "mouseleave"
    /\ totalSlides = 3 /\ slidesVisible = 1 /\ maxIndex = 2
    /\ autoPlayInterval = NoTimer /\ activeIntervals = {} /\ resumePending = 0

\* C28: the resize recalculation leaves the autoplay interval, the pending
\* resumes, isAutoPlaying, isPaused, the slide count, the page and the
\* initialization state as they were; only slidesVisible, maxIndex,
\* currentIndex and the view may differ.
C28_RecalcFrame ==
    [][lastOp' = "recalc" =>
          UNCHANGED <<autoPlayInterval, activeIntervals, resumePending,
                      isAutoPlaying, isPaused, totalSlides, initialized,
                      retryCount, initPending, startX, page, innerWidth>>]_vars

C28_Witness ==
    /\ lastOp = "recalc" /\ isAutoPlaying /\ autoPlayInterval # NoTimer
    /\ activeIntervals = {autoPlayInterval} /\ resumePending = 1
    /\ totalSlides = 7 /\ slidesVisible = 3 /\ prevIndex = 6 /\ currentIndex = 4

\* The indices n consecutive nextSlide() calls show, starting after idx.
RECURSIVE NextVisits(_, _, _)
NextVisits(idx, maxIdx, n) ==
    IF n = 0
    THEN <<>>
    ELSE <<NextIndex(idx, maxIdx)>> \o NextVisits(NextIndex(idx, maxIdx), maxIdx, n - 1)

\* C29: from the current index of an initialized carousel, maxIndex + 1
\* consecutive nextSlide() calls (clicks or ticks, no resize between) show
\* every index of 0..maxIndex exactly once and end on the starting index.
C29_NextCyclesThroughAll ==
    initialized =>
        LET visits == NextVisits(currentIndex, maxIndex, maxIndex + 1)
        IN  /\ Len(visits) = maxIndex + 1
            /\ {visits[i] : i \in 1..Len(visits)} = 0..maxIndex
            /\ \A i, j \in 1..Len(visits) : visits[i] = visits[j] => i = j
            /\ visits[Len(visits)] = currentIndex

C29_Witness ==
    /\ initialized /\ lastOp = "tick" /\ maxIndex = 6 /\ prevIndex = 6
    /\ currentIndex = 0
    /\ NextVisits(currentIndex, maxIndex, maxIndex + 1) = <<1, 2, 3, 4, 5, 6, 0>>

\* C30: while a scheduled call is pending on an uninitialized instance whose
\* container and required elements are present, the next scheduled call that
\* runs is the successful one; setup runs only on an uninitialized instance
\* (scheduled or called), so once per instance; an initialized instance stays
\* initialized and schedules no further call, and every call of initialize()
\* on it, a scheduled one that was still pending or one from outside, changes
\* no field, interval, pending resume, debounce timer or view.
C30_InitializeOnce ==
    [][/\ (initPending > 0 /\ ~initialized /\ containerPresent /\ elementsPresent
           /\ attempts' # attempts) =>
              (lastOp' = "init" /\ initialized' /\ initPending' = initPending - 1)
       /\ (lastOp' = "init" /\ attempts' # attempts) => ~initialized
       /\ (lastOp' = "callInit" /\ lastOp # "callInit") => ~initialized
       /\ initialized => (initialized' /\ initPending' <= initPending)
       /\ (initialized /\ attempts' # attempts) =>
              /\ lastOp' = "initReturned"
              /\ UNCHANGED <<page, innerWidth, fields, startX, activeIntervals,
                             resumePending, debounce, view>>
       /\ (initialized /\ lastOp' = "initAgain") =>
              UNCHANGED <<page, innerWidth, fields, startX, timers, view>>]_vars

\* A call from outside set the instance up while the scheduled call was
\* pending and the interval ticked twice; the scheduled call has now run and
\* returned, and the interval armed at setup is still the only one.
C30_Witness ==
    /\ lastOp = "initReturned" /\ initialized /\ attempts = 1
    /\ initPending = 0 /\ autoPlayInterval # NoTimer
    /\ activeIntervals = {autoPlayInterval} /\ currentIndex = 2

(* ------------------- two carousel instances side by side ----------------- *)
\* Lines 1377-1379 construct englishCarousel and spanishCarousel.  Each has
\* its own fields and listeners on its own container; the browser's interval
\* ids are shared, and an interval calls nextSlide of the instance that armed
\* it.  Each initialized instance has its own debounced resize listener on
\* the one window.

Instances == {"en", "es"}

\* The number of slides an instance's container can hold.
PairSlides == {2, 5}

\* The widths the window takes here: a phone's and a desktop's.
PairWidths == {500, 1200}

\* The fields of an instance the constructor has built.
Constructed ==
    [initialized |-> FALSE, totalSlides |-> Unset, slidesVisible |-> Unset,
     maxIndex |-> Unset, currentIndex |-> Unset, isAutoPlaying |-> FALSE,
     autoPlayInterval |-> NoTimer, resumePending |-> 0, resizePending |-> FALSE]

\* The result of a handler of one instance: every instance's fields and the
\* owners of the live intervals.
PairResult(insts, owner) == [insts |-> insts, owner |-> owner]

\* Mutant: the interval handle is shared, so a pause clears every interval.
PairPauseShared(i, insts, owner) ==
    PairResult([j \in DOMAIN insts |-> [insts[j] EXCEPT !.autoPlayInterval = NoTimer]],
               <<>>)

\* pauseAutoPlay() of instance i: clearInterval(this.autoPlayInterval) and
\* this.autoPlayInterval = null.
PairPause(i, insts, owner) ==
    LET paused == PauseAutoPlay(insts[i].autoPlayInterval, DOMAIN owner)
    IN  PairResult([insts EXCEPT ![i].autoPlayInterval = paused.handle],
                   [id \in paused.active |-> owner[id]])

\* startAutoPlay() of instance i: a new interval, unless autoplay is off or
\* this instance holds one.
PairStart(i, insts, owner) ==
    LET started == StartAutoPlay(insts[i].isAutoPlaying, insts[i].autoPlayInterval,
                                 DOMAIN owner)
    IN  PairResult([insts EXCEPT ![i].autoPlayInterval = started.handle],
                   [id \in started.active |->
                       IF id \in DOMAIN owner THEN owner[id] ELSE i])

\* resumeAutoPlayAfterDelay() of instance i.
PairResume(i, insts) ==
    IF ResumeScheduled(insts[i].isAutoPlaying, FALSE)
    THEN [insts EXCEPT ![i].resumePending = @ + 1]
    ELSE insts

PairRecord(op, i) == pOp' = op /\ pActor' = i

\* initialize() of instance i over a container of n slides.
PairInitialize(i, n) ==
    /\ ~instances[i].initialized
    /\ AutoPlayEnabledFor(n, SlidesVisibleFor(innerWidth)) =>
           DOMAIN intervalOwner # 1..MaxTimers
    /\ LET dim == CalculateDimensions(innerWidth, n, 0)
           set == [Constructed EXCEPT !.initialized = TRUE,
                                      !.totalSlides = n,
                                      !.slidesVisible = dim.slidesVisible,
                                      !.maxIndex = dim.maxIndex,
                                      !.currentIndex = dim.currentIndex,
                                      !.isAutoPlaying =
                                          AutoPlayEnabledFor(n, dim.slidesVisible)]
           res == PairStart(i, [instances EXCEPT ![i] = set], intervalOwner)
       IN  /\ instances' = res.insts
           /\ intervalOwner' = res.owner
    /\ PairRecord("init", i)
    /\ UNCHANGED offPair

\* A click on a control of instance i, or a swipe on its track:
\* handleControlClick(nextSlide) when forward, else
\* handleControlClick(previousSlide).
PairControlClick(i, forward) ==
    /\ instances[i].initialized
    /\ ResumeScheduled(instances[i].isAutoPlaying, FALSE) =>
           instances[i].resumePending < MaxPendingResumes
    /\ LET paused == PairPause(i, instances, intervalOwner)
           idx == IF forward
                  THEN NextIndex(instances[i].currentIndex, instances[i].maxIndex)
                  ELSE PreviousIndex(instances[i].currentIndex, instances[i].maxIndex)
           moved == [paused.insts EXCEPT ![i].currentIndex = idx]
       IN  /\ instances' = PairResume(i, moved)
           /\ intervalOwner' = paused.owner
    /\ PairRecord(IF forward THEN "next" ELSE "previous", i)
    /\ UNCHANGED offPair

\* The interval id fires: nextSlide() of the instance that armed it.
PairTick(id) ==
    /\ id \in DOMAIN intervalOwner
    /\ LET i == intervalOwner[id]
       IN  /\ instances' = [instances EXCEPT ![i].currentIndex =
                                NextIndex(instances[i].currentIndex, instances[i].maxIndex)]
           /\ PairRecord("tick", i)
    /\ UNCHANGED <<intervalOwner, offPair>>

\* mouseenter on the container of instance i: pauseAutoPlay().
PairMouseEnter(i) ==
    /\ instances[i].initialized
    /\ LET paused == PairPause(i, instances, intervalOwner)
       IN  /\ instances' = paused.insts
           /\ intervalOwner' = paused.owner
    /\ PairRecord("mouseenter", i)
    /\ UNCHANGED offPair

\* mouseleave on the container of instance i: resumeAutoPlayAfterDelay().
PairMouseLeave(i) ==
    /\ instances[i].initialized
    /\ ResumeScheduled(instances[i].isAutoPlaying, FALSE) =>
           instances[i].resumePending < MaxPendingResumes
    /\ instances' = PairResume(i, instances)
    /\ PairRecord("mouseleave", i)
    /\ UNCHANGED <<intervalOwner, offPair>>

\* goToSlide(index) of instance i, called by the click listener of a dot or
\* on the instance: an index of 0..maxIndex becomes currentIndex; the
\* interval runs on.
PairGoToSlide(i, index) ==
    /\ instances[i].initialized
    /\ instances' = IF GoToAccepted(index, instances[i].maxIndex)
                    THEN [instances EXCEPT ![i].currentIndex = index]
                    ELSE instances
    /\ PairRecord("goto", i)
    /\ UNCHANGED <<intervalOwner, offPair>>

\* A resize event with the window at width w: the debounced listener of
\* every initialized instance (re)starts its own timeout.
PairResizeEvent(w) ==
    /\ innerWidth' = w
    /\ instances' = [i \in DOMAIN instances |->
                        IF instances[i].initialized
                        THEN [instances[i] EXCEPT !.resizePending = TRUE]
                        ELSE instances[i]]
    /\ PairRecord("resizeEvent", "window")
    /\ UNCHANGED <<intervalOwner, page, fields, startX, timers, view, history,
                   header, widgets>>

\* The debounce timeout of instance i fires: calculateDimensions() (then
\* createIndicators() and updateCarousel(false)).
PairResizeRecalc(i) ==
    /\ instances[i].resizePending
    /\ LET dim == CalculateDimensions(innerWidth, instances[i].totalSlides,
                                      instances[i].currentIndex)
       IN  instances' = [instances EXCEPT ![i].resizePending = FALSE,
                                          ![i].slidesVisible = dim.slidesVisible,
                                          ![i].maxIndex = dim.maxIndex,
                                          ![i].currentIndex = dim.currentIndex]
    /\ PairRecord("recalc", i)
    /\ UNCHANGED <<intervalOwner, offPair>>

\* A resume timeout of instance i fires: startAutoPlay().  The browser hands
\* out MaxTimers interval ids, which matters when a new one is set.
PairResumeFire(i) ==
    /\ instances[i].resumePending > 0
    /\ (instances[i].isAutoPlaying /\ instances[i].autoPlayInterval = NoTimer) =>
           DOMAIN intervalOwner # 1..MaxTimers
    /\ LET res == PairStart(i, [instances EXCEPT ![i].resumePending = @ - 1],
                            intervalOwner)
       IN  /\ instances' = res.insts
           /\ intervalOwner' = res.owner
    /\ PairRecord("resume", i)
    /\ UNCHANGED offPair

\* Both instances constructed, the window at one of the widths.
PairSpecInit ==
    /\ CarouselInit
    /\ innerWidth \in PairWidths
    /\ ~containerPresent /\ ~elementsPresent /\ domSlides = 1 /\ hasIndicators
    /\ HeaderInit
    /\ storeMode = "ok"
    /\ stored = "absent"
    /\ instances = [i \in Instances |-> Constructed]
    /\ intervalOwner = <<>>
    /\ pOp = "construct"
    /\ pActor = "none"
    /\ NoWidgets

PairNext ==
    \/ \E i \in Instances, n \in PairSlides : PairInitialize(i, n)
    \/ \E i \in Instances, forward \in BOOLEAN : PairControlClick(i, forward)
    \/ \E id \in 1..MaxTimers : PairTick(id)
    \/ \E i \in Instances : PairMouseEnter(i)
    \/ \E i \in Instances : PairMouseLeave(i)
    \/ \E i \in Instances : PairResumeFire(i)
    \/ \E i \in Instances :
           \E index \in GoToArgs(instances[i].maxIndex) : PairGoToSlide(i, index)
    \/ \E w \in PairWidths : PairResizeEvent(w)
    \/ \E i \in Instances : PairResizeRecalc(i)

PairSpec == PairSpecInit /\ [][PairNext]_vars

\* C31: a handler of one instance (navigation, goto, tick, pause, resume,
\* resize recalculation) and a resize event of the window leave
\* every other instance's currentIndex, maxIndex and interval handle as they
\* were; an interval that goes or comes belongs to the acting instance; and
\* the handle an instance holds names an interval of its own.
C31_InstancesIndependent ==
    /\ [](\A i \in DOMAIN instances :
             instances[i].autoPlayInterval # NoTimer =>
                 /\ instances[i].autoPlayInterval \in DOMAIN intervalOwner
                 /\ intervalOwner[instances[i].autoPlayInterval] = i)
    /\ [][/\ \A i \in DOMAIN instances : i # pActor' =>
                 /\ instances'[i].currentIndex = instances[i].currentIndex
                 /\ instances'[i].maxIndex = instances[i].maxIndex
                 /\ instances'[i].autoPlayInterval = instances[i].autoPlayInterval
          /\ \A id \in DOMAIN intervalOwner \ DOMAIN intervalOwner' :
                 intervalOwner[id] = pActor'
          /\ \A id \in DOMAIN intervalOwner' \ DOMAIN intervalOwner :
                 intervalOwner'[id] = pActor'
          /\ \A id \in DOMAIN intervalOwner \cap DOMAIN intervalOwner' :
                 intervalOwner'[id] = intervalOwner[id]]_vars

C31_Witness ==
    /\ pOp = "mouseenter" /\ pActor = "en"
    /\ instances["en"].autoPlayInterval = NoTimer /\ instances["en"].currentIndex = 3
    /\ instances["es"].autoPlayInterval # NoTimer /\ instances["es"].currentIndex = 1
    /\ DOMAIN intervalOwner = {instances["es"].autoPlayInterval}

\* C32: changeLanguage with a code other than en, es, ur leaves
\* currentLanguage, the stored preference and the dropdown as they were, and
\* the currentLanguage of a constructed controller is always one of en, es, ur.
C32_UnsupportedChangesNothing ==
    /\ [](headerLoaded => currentLanguage \in TranslationCodes)
    /\ [][(hLastOp' = "change" /\ hArg' \notin TranslationCodes) =>
              UNCHANGED <<currentLanguage, stored, isLanguageDropdownOpen>>]_vars

\* The store held the name of an inherited property at load time, and it has
\* become the current language.
C32_Witness ==
    /\ headerLoaded /\ hLastOp = "load" /\ hArg = "toString"
    /\ currentLanguage = "toString" /\ stored = "toString"
    /\ documentLang = "toString"

\* The part of C32 the code does keep: a code for which translations has no
\* property at all changes nothing.
C32_UnknownKeyChangesNothing ==
    [][(hLastOp' = "change" /\ ~HasTranslation(hArg')) =>
           UNCHANGED <<currentLanguage, stored, isLanguageDropdownOpen,
                       languageDisplay, documentLang>>]_vars

\* C33: right after changeLanguage(l) for l in {en, es, ur} over a store that
\* refuses the write, currentLanguage and the document language are l, the
\* dropdown is closed, and no exception has left the click handler.
C33_ChangeSurvivesFailedWrite ==
    (hLastOp = "change" /\ hArg \in TranslationCodes /\ storeMode # "ok") =>
        /\ currentLanguage = hArg
        /\ languageDisplay = LangMap(hArg)
        /\ documentLang = hArg
        /\ ~isLanguageDropdownOpen
        /\ ~clickThrew

C33_Witness ==
    /\ hLastOp = "change" /\ hArg = "es" /\ storeMode = "readonly"
    /\ stored = "ur" /\ currentLanguage = "es" /\ ~isLanguageDropdownOpen
    /\ ~clickThrew

\* C34: once the DOMContentLoaded handler has run, every one of its steps has
\* completed (the five controllers, smooth scrolling, and the intersection
\* observer where the browser has one) and no error ended it early.
C34_BootCompletes ==
    headerLoaded =>
        /\ bootError = "none"
        /\ \A k \in 1..(Len(BootSteps) - 1) :
               \E j \in 1..Len(bootDone) : bootDone[j] = BootSteps[k]

\* The handler has stopped at new FAQController(): the four controllers
\* before it are constructed, smooth scrolling and the observer never start.
C34_Witness ==
    /\ headerLoaded /\ hLastOp = "load" /\ bootError = "FAQController"
    /\ bootDone = <<"HeaderController", "HeroController", "ServicesController",
                    "TestimonialsController">>

(* ------------------ the service cards and the FAQ accordion -------------- *)
\* ServicesController registers click and keydown listeners on every card and
\* on every CTA button inside a card (lines 61-79, 172-206).  An event on a
\* button reaches the button's listener first and then, unless propagation
\* was stopped, the listener of the enclosing card.

Cards == {1, 2}

\* The events on a CTA button: a click, and the keydown of a key.
CtaGestures == {"click", "Enter", " ", "Tab", "ArrowRight"}

\* The keys the card's keydown listener moves the focus on (lines 185-193).
ArrowKeys == {"ArrowRight", "ArrowDown", "ArrowLeft", "ArrowUp"}

\* The button's listener for an event of the type (the key when a keydown):
\* how often handleCTAClick runs, and what it does to the event.
ButtonListener(type, key) ==
    IF type = "click"
    THEN [cta |-> 1, stopped |-> TRUE, prevented |-> FALSE]
    ELSE IF key \in ActivationKeys
    THEN [cta |-> 1, stopped |-> FALSE, prevented |-> TRUE]
    ELSE [cta |-> 0, stopped |-> FALSE, prevented |-> FALSE]

\* The card's listener: how often handleCardClick runs.  A click whose
\* target is a CTA button is passed over; a keydown is not looked at further.
CardListener(type, key, targetIsCta) ==
    IF type = "click"
    THEN (IF targetIsCta THEN 0 ELSE 1)
    ELSE (IF key \in ActivationKeys THEN 1 ELSE 0)

\* Whether the card's listener calls preventDefault: on the keydown of Enter
\* or Space and of every arrow key; its click listener never does.
CardPrevents(type, key) ==
    type = "keydown" /\ key \in ActivationKeys \cup ArrowKeys

\* One event dispatched on a CTA button: the button's listener runs, and the
\* card's listener too unless propagation was stopped; the default is
\* prevented when either listener that ran prevented it.
DispatchOnButton(type, key) ==
    LET b == ButtonListener(type, key)
    IN  [cta |-> b.cta,
         card |-> IF b.stopped THEN 0 ELSE CardListener(type, key, TRUE),
         prevented |-> b.prevented \/ (~b.stopped /\ CardPrevents(type, key))]

\* An event on a CTA button: a click (made with the pointer, or by the
\* browser when Space is released on the focused button), or the keydown of
\* a key.  Each is one event, handled in a task of its own.
ActivateCta(gesture) ==
    IF gesture = "click"
    THEN DispatchOnButton("click", "")
    ELSE DispatchOnButton("keydown", gesture)

\* An event on the CTA button of card c.  What handleCTAClick and
\* handleCardClick show (a notification, the class active for 200 ms) goes
\* away by itself; what is kept is how often each ran.
CtaGesture(c, gesture) ==
    LET ran == ActivateCta(gesture)
    IN  /\ lastActivation' = [target |-> "cta", card |-> c, gesture |-> gesture,
                              cta |-> ran.cta, cardAction |-> ran.card]
        /\ UNCHANGED <<faq, offWidgets>>

\* A click on card c outside its button, or Enter or Space on the focused
\* card: handleCardClick.
CardGesture(c, gesture) ==
    LET n == CardListener(IF gesture = "click" THEN "click" ELSE "keydown",
                          gesture, FALSE)
    IN  /\ lastActivation' = [target |-> "card", card |-> c, gesture |-> gesture,
                              cta |-> 0, cardAction |-> n]
        /\ UNCHANGED <<faq, offWidgets>>

\* The gestures on a card itself.
CardGestures == {"click", "Enter", " "}

\* The FAQ accordion (the DOMContentLoaded listener of lines 1385-1424): one
\* click listener per question.
FaqItems == 1..MaxFaqItems

\* Mutant: the other open answers are left open.
FaqClickKeepsOthers(q, open, expanded) ==
    IF q \in expanded
    THEN [open |-> open \ {q}, expanded |-> expanded \ {q}]
    ELSE [open |-> open \cup {q}, expanded |-> expanded \cup {q}]

\* A click on question q: every other answer carrying the class open is
\* closed and its question's aria-expanded set to false; then the clicked
\* item is closed when its aria-expanded is true, and opened otherwise.
FaqClickResult(q, open, expanded) ==
    LET others == open \ {q}
        open1 == open \ others
        expanded1 == expanded \ others
    IN  IF q \in expanded1
        THEN [open |-> open1 \ {q}, expanded |-> expanded1 \ {q}]
        ELSE [open |-> open1 \cup {q}, expanded |-> expanded1 \cup {q}]

FaqClick(q) ==
    /\ LET res == FaqClickResult(q, faqOpen, faqExpanded)
       IN  /\ faqOpen' = res.open
           /\ faqExpanded' = res.expanded
    /\ faqLast' = [item |-> q, openBefore |-> faqOpen]
    /\ UNCHANGED <<faqMarkupOk, lastActivation, offWidgets>>

\* The precondition on the markup: at most one answer open, every question's
\* flag matching its answer.
FaqConsistent(open, expanded) == Cardinality(open) <= 1 /\ expanded = open

\* The page as served, with any accordion markup; no gesture yet.
WidgetSpecInit ==
    /\ CarouselInit
    /\ ~containerPresent /\ ~elementsPresent /\ domSlides = 1
    /\ hasIndicators /\ innerWidth = 1200
    /\ HeaderInit
    /\ storeMode = "ok"
    /\ stored = "absent"
    /\ NoPair
    /\ lastActivation = <<>>
    /\ faqOpen \in SUBSET FaqItems
    /\ faqExpanded \in SUBSET FaqItems
    /\ faqMarkupOk = FaqConsistent(faqOpen, faqExpanded)
    /\ faqLast = <<>>

WidgetNext ==
    \/ \E c \in Cards, gesture \in CtaGestures : CtaGesture(c, gesture)
    \/ \E c \in Cards, gesture \in CardGestures : CardGesture(c, gesture)
    \/ \E q \in FaqItems : FaqClick(q)

WidgetSpec == WidgetSpecInit /\ [][WidgetNext]_vars

\* C35: a CTA button activated by a pointer click, by Enter or by Space runs
\* the CTA action exactly once and the card's own action not at all.
C35_CtaRunsAlone ==
    (lastActivation # <<>> /\ lastActivation.target = "cta"
     /\ lastActivation.gesture \in {"click"} \cup ActivationKeys) =>
        (lastActivation.cta = 1 /\ lastActivation.cardAction = 0)

\* Enter on the focused CTA button of card 2 has run the CTA action and the
\* card's action.
C35_Witness ==
    /\ lastActivation # <<>>
    /\ lastActivation.target = "cta" /\ lastActivation.card = 2
    /\ lastActivation.gesture = "Enter"
    /\ lastActivation.cta = 1 /\ lastActivation.cardAction = 1

\* The part of C35 the listeners do keep: a pointer click on the button runs
\* the CTA action once and not the card's.
C35_PointerClickRunsAlone ==
    (lastActivation # <<>> /\ lastActivation.target = "cta"
     /\ lastActivation.gesture = "click") =>
        (lastActivation.cta = 1 /\ lastActivation.cardAction = 0)

\* C36: on a page served with at most one answer open and matching flags,
\* at most one answer is ever open and the flags keep matching; a click on a
\* closed question leaves exactly its answer open, a click on the open
\* question leaves none open.
C36_AtMostOneOpen ==
    faqMarkupOk =>
        /\ Cardinality(faqOpen) <= 1
        /\ faqExpanded = faqOpen
        /\ faqLast # <<>> =>
               faqOpen = (IF faqLast.item \in faqLast.openBefore
                          THEN {} ELSE {faqLast.item})

C36_Witness ==
    /\ faqMarkupOk /\ faqLast # <<>>
    /\ faqLast.item = 2 /\ faqLast.openBefore = {1}
    /\ faqOpen = {2} /\ faqExpanded = {2}

\* ---------------------------------------------------------------------
\* C37: the mobile menu's view follows its state.  In every state of a
\* loaded header, whatever toggle clicks and keys, Escape presses, outside
\* clicks, nav-link clicks and resize handling came before, the page's
\* scrolling is locked exactly when isMobileMenuOpen is true, and the
\* toggle's aria-expanded attribute is isMobileMenuOpen as a string.
C37_MenuViewMatchesState ==
    headerLoaded =>
        /\ (bodyOverflow = "hidden") <=> isMobileMenuOpen
        /\ toggleAriaExpanded = BoolString(isMobileMenuOpen)

\* The resize handling has just closed a menu that was open: scrolling is
\* free again and the toggle says "false".
C37_Witness ==
    /\ hLastOp = "resizeFire"
    /\ hBefore[1]
    /\ ~isMobileMenuOpen
    /\ bodyOverflow = ""
    /\ toggleAriaExpanded = "false"

\* ---------------------------------------------------------------------
\* C38: after a press of Escape the language dropdown and the mobile menu
\* are both closed, whatever they were before; and after the header's
\* debounced resize handling has run at a width above 768 both are closed.
C38_EscapeAndResizeClose ==
    /\ (hLastOp = "key" /\ hArg = "Escape") =>
           ~isMobileMenuOpen /\ ~isLanguageDropdownOpen
    /\ (hLastOp = "resizeFire" /\ innerWidth > HeaderMobileMaxWidth) =>
           ~isMobileMenuOpen /\ ~isLanguageDropdownOpen

\* Escape pressed while the menu and the dropdown were both open.
C38_Witness ==
    /\ hLastOp = "key"
    /\ hArg = "Escape"
    /\ hBefore = <<TRUE, TRUE>>
    /\ ~isMobileMenuOpen
    /\ ~isLanguageDropdownOpen

====
